---- MODULE Spec2Model ----
(***************************************************************************)
(* Backtesting engine of the AI trading system                             *)
(* (src/trading_system/backtesting.py) together with the parts of the      *)
(* risk manager (src/trading_system/risk_management.py) it calls.          *)
(*                                                                         *)
(* Money, quantities and volatilities are Python floats in the source.     *)
(* They are modelled as exact rationals [n, d] in lowest terms, with the   *)
(* float NaN as the distinguished value [n |-> 0, d |-> 0]: arithmetic on  *)
(* NaN yields NaN and every ordered comparison with NaN is false, as in    *)
(* IEEE-754.  Rounding error of finite floats is not modelled.             *)
(*                                                                         *)
(* The database and the traders are collaborators of the engine: the bars  *)
(* the market_data table holds, whether a query succeeds, and the signal a *)
(* trader returns are inputs, drawn from small sets.                       *)
(***************************************************************************)
EXTENDS Integers, Sequences, FiniteSets, TLC

(***************************************************************************)
(* Bounds of the model                                                     *)
(***************************************************************************)
\* number of calendar days the clock can range over, starting on a Friday
NumDays == 4

\* the calendar: day numbers, day 0 is a Monday; the first day is a Friday
LastDay == 3 + NumDays
FirstDay == LastDay - NumDays + 1

\* the symbols argument of run_backtest, in list order
SymbolList == <<"A", "B">>
Symbols == {SymbolList[i] : i \in 1..Len(SymbolList)}

\* closing prices a new bar of a symbol can carry
Prices(symbol) == IF symbol = "A" THEN {90, 100, 120} ELSE {100}

(***************************************************************************)
(* Exact rationals with NaN                                                *)
(***************************************************************************)
NaN == [n |-> 0, d |-> 0]

IsNaN(a) == a.d = 0

Abs(x) == IF x < 0 THEN -x ELSE x

RECURSIVE GCD(_, _)
GCD(a, b) == IF b = 0 THEN a ELSE GCD(b, a % b)

\* the rational n/d (d > 0) in lowest terms
Norm(n, d) ==
    IF n = 0 THEN [n |-> 0, d |-> 1]
    ELSE LET g == GCD(Abs(n), d) IN [n |-> n \div g, d |-> d \div g]

R(n, d) == Norm(n, d)

Zero == [n |-> 0, d |-> 1]

RNeg(a) == IF IsNaN(a) THEN NaN ELSE [n |-> -a.n, d |-> a.d]

RAdd(a, b) ==
    IF IsNaN(a) \/ IsNaN(b) THEN NaN
    ELSE LET g == GCD(a.d, b.d)
             l == (a.d \div g) * b.d
         IN  Norm(a.n * (l \div a.d) + b.n * (l \div b.d), l)

RSub(a, b) == RAdd(a, RNeg(b))

RMul(a, b) ==
    IF IsNaN(a) \/ IsNaN(b) THEN NaN
    ELSE IF a.n = 0 \/ b.n = 0 THEN Zero
    ELSE LET g1 == GCD(Abs(a.n), b.d)
             g2 == GCD(Abs(b.n), a.d)
         IN  [n |-> (a.n \div g1) * (b.n \div g2),
              d |-> (a.d \div g2) * (b.d \div g1)]

\* a / b for b # 0
RDiv(a, b) ==
    IF IsNaN(a) \/ IsNaN(b) THEN NaN
    ELSE IF b.n < 0 THEN RMul(a, [n |-> -b.d, d |-> -b.n])
    ELSE RMul(a, [n |-> b.d, d |-> b.n])

\* ordered comparisons: false when either side is NaN
RLt(a, b) == ~IsNaN(a) /\ ~IsNaN(b) /\ RSub(a, b).n < 0
RLe(a, b) == ~IsNaN(a) /\ ~IsNaN(b) /\ RSub(a, b).n <= 0
RGt(a, b) == RLt(b, a)
RGe(a, b) == RLe(b, a)

\* an integer as a rational
I(x) == [n |-> x, d |-> 1]

RAbs(a) == IF IsNaN(a) THEN NaN ELSE [n |-> Abs(a.n), d |-> a.d]

\* Python's min(a, b): b when b < a, else a (so a NaN first argument wins)
PyMin2(a, b) == IF RLt(b, a) THEN b ELSE a

\* Python's min(a, b, c)
PyMin3(a, b, c) == PyMin2(PyMin2(a, b), c)

\* Python truthiness of a float: 0.0 is falsy, NaN is truthy
Truthy(a) == IsNaN(a) \/ a.n # 0

RECURSIVE RSum(_)
RSum(seq) == IF seq = <<>> THEN Zero ELSE RAdd(seq[1], RSum(Tail(seq)))

(***************************************************************************)
(* RiskManager: configuration                                              *)
(***************************************************************************)
\* the config BacktestingEngine.__init__ passes, and the defaults of the
\* keys it leaves out
max_position_size == R(1, 10)
max_daily_loss == R(5, 100)
max_drawdown == R(15, 100)
stop_loss_pct == R(5, 100)
take_profit_pct == R(15, 100)
max_positions == 10

(***************************************************************************)
(* RiskManager.calculate_position_size                                     *)
(***************************************************************************)
kelly_fraction ==
    LET win_rate == R(55, 100)
        avg_win == take_profit_pct
        avg_loss == stop_loss_pct
    IN  RDiv(RSub(RMul(win_rate, avg_win),
                  RMul(RSub(I(1), win_rate), avg_loss)), avg_win)

volatility_adjustment(volatility) ==
    RDiv(I(1), RAdd(I(1), RMul(volatility, I(10))))

calculate_position_size(portfolio_value, price, volatility) ==
    LET adj == volatility_adjustment(volatility)
        max_size == RMul(RMul(portfolio_value, max_position_size), adj)
        kelly_size == RMul(RMul(portfolio_value, kelly_fraction), adj)
    IN  PyMin3(max_size, kelly_size, RMul(portfolio_value, R(1, 10)))

(***************************************************************************)
(* RiskManager: portfolio risk and the trade gate                          *)
(* A risk position is [symbol, quantity, entry_price, current_price, side, *)
(* stop_loss, take_profit]; RiskManager.positions is a dict, modelled as   *)
(* the sequence of its values in insertion order.                          *)
(***************************************************************************)
RiskPnl(p) ==
    IF p.side = "long"
    THEN RMul(RSub(p.current_price, p.entry_price), p.quantity)
    ELSE RMul(RSub(p.entry_price, p.current_price), p.quantity)

RiskValues(rpos) == [i \in 1..Len(rpos) |-> RMul(rpos[i].quantity, rpos[i].current_price)]

\* np.std(values) / np.mean(values) > c, for c > 0, decided on the squares:
\* the population variance against (c * mean)^2
VolatilityAbove(values, c) ==
    LET k == Len(values)
        mean == RDiv(RSum(values), I(k))
        sq == [i \in 1..k |-> RMul(RSub(values[i], mean), RSub(values[i], mean))]
        var == RDiv(RSum(sq), I(k))
    IN  IF k <= 1 \/ IsNaN(mean) \/ IsNaN(var) THEN FALSE
        ELSE IF mean.n > 0 THEN RGt(var, RMul(RMul(c, c), RMul(mean, mean)))
        ELSE IF mean.n = 0 THEN var.n > 0
        ELSE FALSE

\* _determine_risk_level with the CRITICAL threshold of line 224 off by one
_determine_risk_level_mapping(daily_return, drawdown, values, position_count) ==
    LET s1 == IF RGt(RAbs(daily_return), max_daily_loss) THEN 3
              ELSE IF RGt(RAbs(daily_return), RMul(max_daily_loss, R(1, 2))) THEN 1
              ELSE 0
        s2 == IF RGt(RAbs(drawdown), max_drawdown) THEN 3
              ELSE IF RGt(RAbs(drawdown), RMul(max_drawdown, R(1, 2))) THEN 1
              ELSE 0
        s3 == IF VolatilityAbove(values, R(5, 100)) THEN 2
              ELSE IF VolatilityAbove(values, R(3, 100)) THEN 1
              ELSE 0
        s4 == IF position_count > max_positions THEN 2
              ELSE IF 10 * position_count > 8 * max_positions THEN 1
              ELSE 0
        risk_score == s1 + s2 + s3 + s4
    IN  IF risk_score > 6 THEN "CRITICAL"
        ELSE IF risk_score >= 4 THEN "HIGH"
        ELSE IF risk_score >= 2 THEN "MEDIUM"
        ELSE "LOW"

_determine_risk_level(daily_return, drawdown, values, position_count) ==
    LET s1 == IF RGt(RAbs(daily_return), max_daily_loss) THEN 3
              ELSE IF RGt(RAbs(daily_return), RMul(max_daily_loss, R(1, 2))) THEN 1
              ELSE 0
        s2 == IF RGt(RAbs(drawdown), max_drawdown) THEN 3
              ELSE IF RGt(RAbs(drawdown), RMul(max_drawdown, R(1, 2))) THEN 1
              ELSE 0
        s3 == IF VolatilityAbove(values, R(5, 100)) THEN 2
              ELSE IF VolatilityAbove(values, R(3, 100)) THEN 1
              ELSE 0
        s4 == IF position_count > max_positions THEN 2
              ELSE IF 10 * position_count > 8 * max_positions THEN 1
              ELSE 0
        risk_score == s1 + s2 + s3 + s4
    IN  IF risk_score >= 6 THEN "CRITICAL"
        ELSE IF risk_score >= 4 THEN "HIGH"
        ELSE IF risk_score >= 2 THEN "MEDIUM"
        ELSE "LOW"

\* the fields of PortfolioRisk that should_trade reads; correlation is the
\* score _calculate_correlation_score returns for the market_data frame passed
calculate_portfolio_risk(rpos, portfolio_value, correlation) ==
    IF rpos = <<>>
    THEN [risk_level |-> "LOW", daily_pnl |-> Zero, total_pnl |-> Zero,
          max_drawdown |-> Zero, position_count |-> 0, correlation_score |-> Zero]
    ELSE LET total_pnl == RSum([i \in 1..Len(rpos) |-> RiskPnl(rpos[i])])
             daily_pnl == RMul(total_pnl, R(1, 10))
             dd == PyMin2(Zero, RDiv(total_pnl, portfolio_value))
         IN  [risk_level |-> _determine_risk_level(RDiv(daily_pnl, portfolio_value),
                                                   dd, RiskValues(rpos), Len(rpos)),
              daily_pnl |-> daily_pnl, total_pnl |-> total_pnl,
              max_drawdown |-> dd, position_count |-> Len(rpos),
              correlation_score |-> correlation]

RiskHas(rpos, symbol) == \E i \in 1..Len(rpos) : rpos[i].symbol = symbol

\* should_trade without the test of the HIGH level of line 246
should_trade_high_open(rpos, symbol, signal, portfolio_value, correlation) ==
    IF Len(rpos) >= max_positions /\ ~RiskHas(rpos, symbol) THEN FALSE
    ELSE LET portfolio_risk == calculate_portfolio_risk(rpos, portfolio_value, correlation)
         IN  IF portfolio_risk.risk_level = "CRITICAL" THEN FALSE
             ELSE IF RLt(portfolio_risk.daily_pnl,
                         RMul(RNeg(portfolio_value), max_daily_loss)) THEN FALSE
             ELSE IF RGt(portfolio_risk.correlation_score, R(7, 10)) THEN FALSE
             ELSE TRUE

\* the boolean should_trade returns
should_trade(rpos, symbol, signal, portfolio_value, correlation) ==
    IF Len(rpos) >= max_positions /\ ~RiskHas(rpos, symbol) THEN FALSE
    ELSE LET portfolio_risk == calculate_portfolio_risk(rpos, portfolio_value, correlation)
         IN  IF portfolio_risk.risk_level = "CRITICAL" THEN FALSE
             ELSE IF portfolio_risk.risk_level = "HIGH" /\ signal # "SELL" THEN FALSE
             ELSE IF RLt(portfolio_risk.daily_pnl,
                         RMul(RNeg(portfolio_value), max_daily_loss)) THEN FALSE
             ELSE IF RGt(portfolio_risk.correlation_score, R(7, 10)) THEN FALSE
             ELSE TRUE

(***************************************************************************)
(* BacktestingEngine: state                                                *)
(***************************************************************************)
VARIABLES
    pc,                 \* where run_backtest is
    initial_capital,    \* constructor argument
    start_date,         \* arguments of run_backtest
    end_date,
    commission,
    current_date,       \* the loop's clock
    last_equity_update, \* NoDate for None
    current_capital,    \* the ledger's cash
    positions,          \* dict symbol -> Position, as its values in insertion order
    trades,             \* the trade log
    equity_curve,       \* the snapshots
    risk_positions,     \* RiskManager.positions of the engine's risk manager
    signals,            \* the items of the signals dict _execute_trades has yet to visit
    close,              \* market_data as of current_date: latest close, 0 if no bar
    nbars,              \* bars as of current_date, counted up to HistoryBars
    bar_today,          \* whether a bar is dated current_date
    gate_consulted,     \* whether the last step called should_trade
    attempt,            \* what the last step's call of _execute_buy computed
    visited,            \* the dates on which the loop body was entered
    result,             \* the BacktestResult returned
    call                \* the last direct call of a method, and what it returned

vars == <<pc, initial_capital, start_date, end_date, commission, current_date,
          last_equity_update, current_capital, positions, trades, equity_curve,
          risk_positions, signals, close, nbars, bar_today, gate_consulted,
          attempt, visited, result, call>>

args == <<initial_capital, start_date, end_date, commission>>
ledger == <<current_capital, positions, trades>>
market == <<close, nbars, bar_today>>

NoDate == 0 - 1
NoResult == [returned |-> FALSE]
NoAttempt == [made |-> FALSE]
observed == <<gate_consulted, attempt>>
NoCall == [op |-> "none"]
risk == <<risk_positions, call>>

\* bars needed before pct_change().dropna().std() is a number: with fewer
\* than three closes there are fewer than two returns and the sample
\* standard deviation is NaN
HistoryBars == 3

\* the close of the bars a symbol has before the first day, when it has any
BasePrice == 100

\* commission rates and initial capitals a run is started with
Commissions == {R(1, 10), I(10)}
InitialCapitals == {I(100000), Zero}

AllPrices == UNION {Prices(s) : s \in Symbols}

TraderSignals == {"BUY", "SELL", "HOLD"}

Min(a, b) == IF a < b THEN a ELSE b

(***************************************************************************)
(* dict helpers: a dict as the sequence of its values, each with its key   *)
(* in the field symbol                                                     *)
(***************************************************************************)
Has(dict, symbol) == \E i \in 1..Len(dict) : dict[i].symbol = symbol

Get(dict, symbol) == dict[CHOOSE i \in 1..Len(dict) : dict[i].symbol = symbol]

\* dict[symbol] = value
Put(dict, value) ==
    IF Has(dict, value.symbol)
    THEN [i \in 1..Len(dict) |-> IF dict[i].symbol = value.symbol THEN value ELSE dict[i]]
    ELSE Append(dict, value)

\* del dict[symbol]
Del(dict, symbol) == SelectSeq(dict, LAMBDA v : v.symbol # symbol)

\* list(dict.keys())
Keys(dict) == [i \in 1..Len(dict) |-> dict[i].symbol]

(***************************************************************************)
(* Ledger operations on L = [cash, positions, trades]                      *)
(***************************************************************************)
\* lines 224-237 of _execute_buy: the size, quantity, notional and commission
\* of the order; volatility is what _calculate_volatility returned
BuyQuote(cash, price, rate, volatility) ==
    LET position_size == calculate_position_size(cash, I(price), volatility)
        quantity == RDiv(position_size, I(price))
        trade_value == RMul(quantity, I(price))
    IN  [position_size |-> position_size, quantity |-> quantity,
         trade_value |-> trade_value, trade_commission |-> RMul(trade_value, rate)]

NewPosition(symbol, quantity, price, date) ==
    [symbol |-> symbol, quantity |-> quantity, entry_price |-> price,
     current_price |-> price, side |-> "long", timestamp |-> date,
     unrealized_pnl |-> Zero]

\* an opening Trade that books its commission as a realized loss
BuyTradeCharged(symbol, quantity, price, date, trade_commission) ==
    [symbol |-> symbol, side |-> "buy", quantity |-> quantity, price |-> price,
     timestamp |-> date, strategy |-> "multifactor", pnl |-> RNeg(trade_commission),
     commission |-> trade_commission]

BuyTrade(symbol, quantity, price, date, trade_commission) ==
    [symbol |-> symbol, side |-> "buy", quantity |-> quantity, price |-> price,
     timestamp |-> date, strategy |-> "multifactor", pnl |-> Zero,
     commission |-> trade_commission]

\* _execute_buy with the operands of the debit of line 244 swapped
_execute_buy_swapped(L, symbol, price, date, rate, volatility) ==
    LET q == BuyQuote(L.cash, price, rate, volatility)
    IN  IF RLe(q.position_size, Zero) THEN L
        ELSE IF RGt(RAdd(q.trade_value, q.trade_commission), L.cash) THEN L
        ELSE [cash |-> RSub(RAdd(q.trade_value, q.trade_commission), L.cash),
              positions |-> Put(L.positions, NewPosition(symbol, q.quantity, price, date)),
              trades |-> Append(L.trades,
                  BuyTrade(symbol, q.quantity, price, date, q.trade_commission))]

\* _execute_buy without the capital check of lines 240-241
_execute_buy_unchecked(L, symbol, price, date, rate, volatility) ==
    LET q == BuyQuote(L.cash, price, rate, volatility)
    IN  IF RLe(q.position_size, Zero) THEN L
        ELSE [cash |-> RSub(L.cash, RAdd(q.trade_value, q.trade_commission)),
              positions |-> Put(L.positions, NewPosition(symbol, q.quantity, price, date)),
              trades |-> Append(L.trades,
                  BuyTrade(symbol, q.quantity, price, date, q.trade_commission))]

\* _execute_buy, lines 221-268
_execute_buy(L, symbol, price, date, rate, volatility) ==
    LET q == BuyQuote(L.cash, price, rate, volatility)
        position_size == q.position_size
        quantity == q.quantity
        trade_value == q.trade_value
        trade_commission == q.trade_commission
    IN  IF RLe(position_size, Zero) THEN L
        ELSE IF RGt(RAdd(trade_value, trade_commission), L.cash) THEN L
        ELSE [cash |-> RSub(L.cash, RAdd(trade_value, trade_commission)),
              positions |-> Put(L.positions, NewPosition(symbol, quantity, price, date)),
              trades |-> Append(L.trades,
                  BuyTrade(symbol, quantity, price, date, trade_commission))]

\* _execute_sell recording a trade where line 272 returns
_execute_sell_absent(L, symbol, price, date, rate) ==
    IF ~Has(L.positions, symbol)
    THEN [L EXCEPT !.trades = Append(@,
              [symbol |-> symbol, side |-> "sell", quantity |-> Zero,
               price |-> price, timestamp |-> date, strategy |-> "multifactor",
               pnl |-> Zero, commission |-> Zero])]
    ELSE LET position == Get(L.positions, symbol)
             pnl == RMul(RSub(I(price), I(position.entry_price)), position.quantity)
             trade_value == RMul(position.quantity, I(price))
             trade_commission == RMul(trade_value, rate)
         IN  [cash |-> RAdd(L.cash, RSub(trade_value, trade_commission)),
              positions |-> Del(L.positions, symbol),
              trades |-> Append(L.trades,
                  [symbol |-> symbol, side |-> "sell", quantity |-> position.quantity,
                   price |-> price, timestamp |-> date, strategy |-> "multifactor",
                   pnl |-> pnl, commission |-> trade_commission])]

\* _execute_sell without the del of line 301
_execute_sell_kept(L, symbol, price, date, rate) ==
    IF ~Has(L.positions, symbol) THEN L
    ELSE LET position == Get(L.positions, symbol)
             pnl == RMul(RSub(I(price), I(position.entry_price)), position.quantity)
             trade_value == RMul(position.quantity, I(price))
             trade_commission == RMul(trade_value, rate)
         IN  [cash |-> RAdd(L.cash, RSub(trade_value, trade_commission)),
              positions |-> L.positions,
              trades |-> Append(L.trades,
                  [symbol |-> symbol, side |-> "sell", quantity |-> position.quantity,
                   price |-> price, timestamp |-> date, strategy |-> "multifactor",
                   pnl |-> pnl, commission |-> trade_commission])]

\* _execute_sell without the append of line 298
_execute_sell_unlogged(L, symbol, price, date, rate) ==
    IF ~Has(L.positions, symbol) THEN L
    ELSE LET position == Get(L.positions, symbol)
             trade_value == RMul(position.quantity, I(price))
             trade_commission == RMul(trade_value, rate)
         IN  [cash |-> RAdd(L.cash, RSub(trade_value, trade_commission)),
              positions |-> Del(L.positions, symbol),
              trades |-> L.trades]

\* _execute_sell, lines 270-303
_execute_sell(L, symbol, price, date, rate) ==
    IF ~Has(L.positions, symbol) THEN L
    ELSE LET position == Get(L.positions, symbol)
             pnl == RMul(RSub(I(price), I(position.entry_price)), position.quantity)
             trade_value == RMul(position.quantity, I(price))
             trade_commission == RMul(trade_value, rate)
         IN  [cash |-> RAdd(L.cash, RSub(trade_value, trade_commission)),
              positions |-> Del(L.positions, symbol),
              trades |-> Append(L.trades,
                  [symbol |-> symbol, side |-> "sell", quantity |-> position.quantity,
                   price |-> price, timestamp |-> date, strategy |-> "multifactor",
                   pnl |-> pnl, commission |-> trade_commission])]

\* the two tests of _check_position_exits on one position, lines 319-329
StopLossHit(position) ==
    RLe(I(position.current_price), RMul(I(position.entry_price), R(95, 100)))

TakeProfitHit(position) ==
    RGe(I(position.current_price), RMul(I(position.entry_price), R(115, 100)))

\* the body of the loop of _check_position_exits for one key
CheckExit(L, symbol, date, rate) ==
    LET position == Get(L.positions, symbol)
        L1 == IF StopLossHit(position)
              THEN _execute_sell(L, symbol, position.current_price, date, rate)
              ELSE L
    IN  IF TakeProfitHit(position)
        THEN _execute_sell(L1, symbol, position.current_price, date, rate)
        ELSE L1

\* _check_position_exits over the keys snapshot
RECURSIVE _check_position_exits(_, _, _, _)
_check_position_exits(L, keys, date, rate) ==
    IF keys = <<>> THEN L
    ELSE _check_position_exits(CheckExit(L, keys[1], date, rate), Tail(keys), date, rate)

\* _get_price: the latest close as of the date, or 0 for None when there is
\* no bar or the lookup raised (ok is false)
_get_price(symbol, ok) == IF ok THEN close[symbol] ELSE 0

\* _close_all_positions over the keys snapshot; got[s] tells whether the
\* price lookup of s succeeded
RECURSIVE _close_all_positions(_, _, _, _, _)
_close_all_positions(L, keys, date, rate, got) ==
    IF keys = <<>> THEN L
    ELSE LET current_price == _get_price(keys[1], got[keys[1]])
             L1 == IF current_price # 0
                   THEN _execute_sell(L, keys[1], current_price, date, rate)
                   ELSE L
         IN  _close_all_positions(L1, Tail(keys), date, rate, got)

\* _update_positions: marks every position whose price lookup succeeded
_update_positions(dict, got, newclose) ==
    [i \in 1..Len(dict) |->
        LET current_price == IF got[dict[i].symbol] THEN newclose[dict[i].symbol] ELSE 0
        IN  IF current_price # 0
            THEN [dict[i] EXCEPT !.current_price = current_price,
                                 !.unrealized_pnl =
                                     RMul(RSub(I(current_price), I(dict[i].entry_price)),
                                          dict[i].quantity)]
            ELSE dict[i]]

\* the portfolio value _update_equity_curve computes
PortfolioValue(cash, dict) ==
    RAdd(cash, RSum([i \in 1..Len(dict) |->
                        RMul(dict[i].quantity, I(dict[i].current_price))]))

\* what _calculate_volatility can return for a symbol: 0.02 when the query
\* raised, NaN with too few bars, else the standard deviation of the returns
Volatilities(symbol) ==
    IF nbars[symbol] < HistoryBars THEN {NaN, R(2, 100)} ELSE {Zero, R(2, 100)}

\* the signals dict for the per-symbol outcomes sig (NONE: the symbol was skipped)
SignalsOf(sig) ==
    LET keep == SelectSeq(SymbolList, LAMBDA s : sig[s] # "NONE")
    IN  [i \in 1..Len(keep) |-> [symbol |-> keep[i], signal |-> sig[keep[i]]]]

IsWeekend(date) == date % 7 >= 5

(***************************************************************************)
(* Initial state: the engine constructed, run_backtest not yet called      *)
(***************************************************************************)
Init ==
    /\ pc = "idle"
    /\ initial_capital \in InitialCapitals
    /\ start_date \in FirstDay..(FirstDay + 1)
    /\ end_date \in (FirstDay - 1)..LastDay
    /\ commission \in Commissions
    /\ current_date = NoDate
    /\ last_equity_update = NoDate
    /\ current_capital = initial_capital
    /\ positions = <<>>
    /\ trades = <<>>
    /\ equity_curve = <<>>
    /\ risk_positions = <<>>
    /\ signals = <<>>
    /\ \E hist \in [Symbols -> BOOLEAN] :
          /\ close = [s \in Symbols |-> IF hist[s] THEN BasePrice ELSE 0]
          /\ nbars = [s \in Symbols |-> IF hist[s] THEN HistoryBars ELSE 0]
    /\ bar_today = [s \in Symbols |-> FALSE]
    /\ gate_consulted = FALSE
    /\ attempt = NoAttempt
    /\ visited = <<>>
    /\ result = NoResult
    /\ call = NoCall

(***************************************************************************)
(* run_backtest                                                            *)
(***************************************************************************)
\* a reset that empties the positions and the equity curve and leaves the
\* cash and the trade log of the run before
_reset_state_partial ==
    [cash |-> current_capital, positions |-> <<>>, trades |-> trades,
     equity_curve |-> <<>>]

\* _reset_state, lines 144-151: the ledger a run starts from
_reset_state ==
    [cash |-> initial_capital, positions |-> <<>>, trades |-> <<>>,
     equity_curve |-> <<>>]

\* lines 99-106: _reset_state and the clock set to start_date
StartBacktest ==
    /\ pc = "idle"
    /\ pc' = "loop"
    /\ current_capital' = _reset_state.cash
    /\ positions' = _reset_state.positions
    /\ trades' = _reset_state.trades
    /\ equity_curve' = _reset_state.equity_curve
    /\ current_date' = start_date
    /\ last_equity_update' = NoDate
    /\ gate_consulted' = FALSE
    /\ attempt' = NoAttempt
    /\ UNCHANGED <<args, risk, signals, market, visited, result>>

\* lines 108-113: a weekend day is skipped
SkipWeekend ==
    /\ pc = "loop"
    /\ current_date <= end_date
    /\ IsWeekend(current_date)
    /\ current_date' = current_date + 1
    /\ visited' = Append(visited, current_date)
    /\ gate_consulted' = FALSE
    /\ attempt' = NoAttempt
    /\ UNCHANGED <<pc, args, last_equity_update, ledger, equity_curve, risk,
                   signals, market, result>>

\* line 116: _update_positions.  The bars dated current_date (bar[s], 0 for
\* none) become visible to the as-of queries of the day.
UpdatePositions ==
    /\ pc = "loop"
    /\ current_date <= end_date
    /\ ~IsWeekend(current_date)
    /\ \E bar \in [Symbols -> {0} \cup AllPrices], got \in [Symbols -> BOOLEAN] :
          /\ \A s \in Symbols : bar[s] \in {0} \cup Prices(s)
          /\ \A s \in Symbols : ~Has(positions, s) => got[s]
          /\ close' = [s \in Symbols |-> IF bar[s] # 0 THEN bar[s] ELSE close[s]]
          /\ nbars' = [s \in Symbols |->
                          IF bar[s] # 0 THEN Min(nbars[s] + 1, HistoryBars) ELSE nbars[s]]
          /\ bar_today' = [s \in Symbols |-> bar[s] # 0]
          /\ positions' = _update_positions(positions, got, close')
    /\ pc' = "signals"
    /\ visited' = Append(visited, current_date)
    /\ gate_consulted' = FALSE
    /\ attempt' = NoAttempt
    /\ UNCHANGED <<args, current_date, last_equity_update, current_capital, trades,
                   equity_curve, risk, signals, result>>

\* line 119: _generate_signals.  A symbol whose market data came back empty
\* is skipped; otherwise the trader's answer (HOLD when it raised) is stored.
GenerateSignals ==
    /\ pc = "signals"
    /\ \E sig \in [Symbols -> TraderSignals \cup {"NONE"}] :
          /\ \A s \in Symbols : nbars[s] = 0 => sig[s] = "NONE"
          /\ signals' = SignalsOf(sig)
    /\ pc' = "trades"
    /\ gate_consulted' = FALSE
    /\ attempt' = NoAttempt
    /\ UNCHANGED <<args, current_date, last_equity_update, ledger, equity_curve,
                   risk, market, visited, result>>

\* the test of line 206 without its second conjunct
BuyBranchAnyBuy(signal, symbol) == signal = "BUY"

\* line 206 and line 215: the tests of the two branches of _execute_trades
BuyBranch(signal, symbol) == signal = "BUY" /\ ~Has(positions, symbol)

SellBranch(signal, symbol) == signal = "SELL" /\ Has(positions, symbol)

SetLedger(L) ==
    /\ current_capital' = L.cash
    /\ positions' = L.positions
    /\ trades' = L.trades

Ledger == [cash |-> current_capital, positions |-> positions, trades |-> trades]

\* lines 207-213: the gate, then _execute_buy
TradeBuy(symbol, signal, current_price) ==
    /\ gate_consulted' = TRUE
    /\ IF should_trade(risk_positions, symbol, signal, current_capital, Zero)
       THEN \E volatility \in Volatilities(symbol) :
              /\ attempt' = [made |-> TRUE, cash |-> current_capital,
                             quote |-> BuyQuote(current_capital, current_price,
                                                commission, volatility)]
              /\ SetLedger(_execute_buy(Ledger, symbol, current_price, current_date,
                                        commission, volatility))
       ELSE /\ attempt' = NoAttempt
            /\ UNCHANGED ledger

\* the sell of line 216 put behind the gate, as the buy of lines 207-213 is
TradeSellGated(symbol, signal, current_price) ==
    /\ gate_consulted' = TRUE
    /\ attempt' = NoAttempt
    /\ IF should_trade(risk_positions, symbol, signal, current_capital, Zero)
       THEN SetLedger(_execute_sell(Ledger, symbol, current_price, current_date,
                                    commission))
       ELSE UNCHANGED ledger

\* line 216: _execute_sell, not gated
TradeSell(symbol, signal, current_price) ==
    /\ gate_consulted' = FALSE
    /\ attempt' = NoAttempt
    /\ SetLedger(_execute_sell(Ledger, symbol, current_price, current_date, commission))

\* lines 199-219: one iteration of the loop of _execute_trades
ExecuteTrades ==
    /\ pc = "trades"
    /\ signals # <<>>
    /\ LET symbol == signals[1].symbol
           signal == signals[1].signal
       IN  \E ok \in BOOLEAN :
             LET current_price == _get_price(symbol, ok)
             IN  \/ /\ current_price = 0
                    /\ UNCHANGED <<ledger, observed>>
                 \/ /\ current_price # 0
                    /\ BuyBranch(signal, symbol)
                    /\ TradeBuy(symbol, signal, current_price)
                 \/ /\ current_price # 0
                    /\ ~BuyBranch(signal, symbol)
                    /\ SellBranch(signal, symbol)
                    /\ TradeSell(symbol, signal, current_price)
                 \/ /\ current_price # 0
                    /\ ~BuyBranch(signal, symbol)
                    /\ ~SellBranch(signal, symbol)
                    /\ UNCHANGED <<ledger, observed>>
    /\ signals' = Tail(signals)
    /\ UNCHANGED <<pc, args, current_date, last_equity_update, equity_curve,
                   risk, market, visited, result>>

\* line 125: _check_position_exits, entered when _execute_trades has returned
CheckPositionExits ==
    /\ pc = "trades"
    /\ signals = <<>>
    /\ SetLedger(_check_position_exits(Ledger, Keys(positions), current_date, commission))
    /\ pc' = "equity"
    /\ gate_consulted' = FALSE
    /\ attempt' = NoAttempt
    /\ UNCHANGED <<args, current_date, last_equity_update, equity_curve,
                   risk, signals, market, visited, result>>

\* lines 128-132: the snapshot of the day, and the clock advanced
UpdateEquityCurve ==
    /\ pc = "equity"
    /\ IF last_equity_update = NoDate \/ current_date - last_equity_update >= 1
       THEN /\ equity_curve' = Append(equity_curve,
                 LET portfolio_value == PortfolioValue(current_capital, positions)
                 IN  [date |-> current_date, equity |-> portfolio_value,
                      capital |-> current_capital,
                      positions_value |-> RSub(portfolio_value, current_capital)])
            /\ last_equity_update' = current_date
       ELSE UNCHANGED <<equity_curve, last_equity_update>>
    /\ current_date' = current_date + 1
    /\ pc' = "loop"
    /\ gate_consulted' = FALSE
    /\ attempt' = NoAttempt
    /\ bar_today' = [s \in Symbols |-> FALSE]
    /\ UNCHANGED <<args, ledger, risk, signals, close, nbars, visited, result>>

\* line 139: _close_all_positions(end_date), once the loop has ended
CloseAllPositions ==
    /\ pc = "loop"
    /\ current_date > end_date
    /\ \E got \in [Symbols -> BOOLEAN] :
          /\ \A s \in Symbols : ~Has(positions, s) => got[s]
          /\ SetLedger(_close_all_positions(Ledger, Keys(positions), end_date,
                                            commission, got))
    /\ pc' = "results"
    /\ gate_consulted' = FALSE
    /\ attempt' = NoAttempt
    /\ UNCHANGED <<args, current_date, last_equity_update, equity_curve,
                   risk, signals, market, visited, result>>

(***************************************************************************)
(* BacktestingEngine._calculate_results                                    *)
(* Dividing a Python float by 0.0 raises ZeroDivisionError; an equity is   *)
(* 0.0 only while the cash is and nothing has been traded, when it is a    *)
(* Python float still.                                                     *)
(***************************************************************************)
\* the loop of lines 450-458 from the i-th equity value on
RECURSIVE DrawdownFrom(_, _, _, _, _)
DrawdownFrom(equity_values, i, peak, max_dd, max_dd_pct) ==
    IF i > Len(equity_values)
    THEN [raised |-> FALSE, max_drawdown |-> max_dd, max_drawdown_pct |-> max_dd_pct]
    ELSE LET equity == equity_values[i]
             top == IF RGt(equity, peak) THEN equity ELSE peak
             drawdown == RSub(top, equity)
             drawdown_pct == RMul(RDiv(drawdown, top), I(100))
         IN  IF top = Zero
             THEN [raised |-> TRUE, max_drawdown |-> max_dd,
                   max_drawdown_pct |-> max_dd_pct]
             ELSE IF RGt(drawdown, max_dd)
             THEN DrawdownFrom(equity_values, i + 1, top, drawdown, drawdown_pct)
             ELSE DrawdownFrom(equity_values, i + 1, top, max_dd, max_dd_pct)

\* _calculate_max_drawdown, lines 440-460, of an equity curve
_calculate_max_drawdown(curve) ==
    IF curve = <<>>
    THEN [raised |-> FALSE, max_drawdown |-> Zero, max_drawdown_pct |-> Zero]
    ELSE LET equity_values == [i \in 1..Len(curve) |-> curve[i].equity]
         IN  DrawdownFrom(equity_values, 1, equity_values[1], Zero, Zero)

\* lines 391-396
DailyReturns(curve) ==
    [i \in 1..(Len(curve) - 1) |->
        RDiv(RSub(curve[i + 1].equity, curve[i].equity), curve[i].equity)]

Sign(a) == IF a.n > 0 THEN 1 ELSE IF a.n < 0 THEN 0 - 1 ELSE 0

\* np.std(daily_returns) > 0: the returns are numbers and not all the same
StdPositive(daily_returns) ==
    /\ \A i \in 1..Len(daily_returns) : ~IsNaN(daily_returns[i])
    /\ \E i \in 1..Len(daily_returns) : daily_returns[i] # daily_returns[1]

\* the Sharpe ratio without the test of the deviation of line 402: numpy
\* divides by 0 without raising
SharpeSignUnguarded(daily_returns) ==
    IF daily_returns # <<>> THEN Sign(RSum(daily_returns)) ELSE 0

\* lines 399-405: the sign of the Sharpe ratio (the ratio itself,
\* mean / std * sqrt(252), is irrational)
SharpeSign(daily_returns) ==
    IF daily_returns # <<>>
    THEN IF StdPositive(daily_returns) THEN Sign(RSum(daily_returns)) ELSE 0
    ELSE 0

\* Python's max and min of a non-empty list: an element replaces the running
\* result only when it compares beyond it
RECURSIVE PyMax(_, _)
PyMax(seq, best) ==
    IF seq = <<>> THEN best
    ELSE PyMax(Tail(seq), IF RGt(seq[1], best) THEN seq[1] ELSE best)

RECURSIVE PyMin(_, _)
PyMin(seq, worst) ==
    IF seq = <<>> THEN worst
    ELSE PyMin(Tail(seq), IF RLt(seq[1], worst) THEN seq[1] ELSE worst)

\* the traders of BacktestingEngine.__init__, lines 74-80, in dict order
TraderNames == <<"momentum", "mean_reversion", "sentiment", "fundamental", "multifactor">>

\* self.strategy_performance: written at lines 92 and 151 and nowhere else
strategy_performance ==
    [name \in {TraderNames[i] : i \in 1..Len(TraderNames)} |->
        [trades |-> 0, pnl |-> Zero]]

\* _empty_results reporting the cash of the ledger as the final capital
_empty_results_cash ==
    [returned |-> TRUE, initial_capital |-> initial_capital,
     final_capital |-> current_capital, total_return |-> Zero,
     total_return_pct |-> Zero, sharpe_ratio |-> 0, max_drawdown |-> Zero,
     max_drawdown_pct |-> Zero, win_rate |-> Zero, total_trades |-> 0,
     profitable_trades |-> 0, avg_trade_pnl |-> Zero, best_trade |-> Zero,
     worst_trade |-> Zero, daily_returns |-> <<>>,
     equity_curve |-> <<>>, trades |-> <<>>, positions |-> <<>>,
     strategy_performance |-> strategy_performance]

\* _empty_results, lines 462-483
_empty_results ==
    [returned |-> TRUE, initial_capital |-> initial_capital,
     final_capital |-> initial_capital, total_return |-> Zero,
     total_return_pct |-> Zero, sharpe_ratio |-> 0, max_drawdown |-> Zero,
     max_drawdown_pct |-> Zero, win_rate |-> Zero, total_trades |-> 0,
     profitable_trades |-> 0, avg_trade_pnl |-> Zero, best_trade |-> Zero,
     worst_trade |-> Zero, daily_returns |-> <<>>,
     equity_curve |-> <<>>, trades |-> <<>>, positions |-> <<>>,
     strategy_performance |-> strategy_performance]

\* the exception that leaves run_backtest through line 142
Raised == [returned |-> FALSE, raised |-> "ZeroDivisionError"]

\* lines 379-438, of an equity curve, a trade log and a position map;
\* sharpe_ratio holds the sign of the ratio
Results(curve, log, open) ==
    IF curve = <<>> THEN _empty_results
    ELSE LET initial_equity == curve[1].equity
             final_equity == curve[Len(curve)].equity
             total_return == RSub(final_equity, initial_equity)
             daily_returns == DailyReturns(curve)
             drawdown == _calculate_max_drawdown(curve)
             total_trades == Len(log)
             profitable_trades == Len(SelectSeq(log, LAMBDA t : RGt(t.pnl, Zero)))
             nonzero == SelectSeq(log, LAMBDA t : IsNaN(t.pnl) \/ t.pnl # Zero)
             trade_pnls == [k \in 1..Len(nonzero) |-> nonzero[k].pnl]
         IN  IF \/ initial_equity = Zero
                \/ \E k \in 1..(Len(curve) - 1) : curve[k].equity = Zero
                \/ drawdown.raised
             THEN Raised
             ELSE [returned |-> TRUE,
                   initial_capital |-> initial_equity,
                   final_capital |-> final_equity,
                   total_return |-> total_return,
                   total_return_pct |-> RMul(RDiv(total_return, initial_equity), I(100)),
                   sharpe_ratio |-> SharpeSign(daily_returns),
                   max_drawdown |-> drawdown.max_drawdown,
                   max_drawdown_pct |-> drawdown.max_drawdown_pct,
                   win_rate |-> IF total_trades > 0
                                THEN R(profitable_trades * 100, total_trades)
                                ELSE Zero,
                   total_trades |-> total_trades,
                   profitable_trades |-> profitable_trades,
                   avg_trade_pnl |-> IF trade_pnls # <<>>
                                     THEN RDiv(RSum(trade_pnls), I(Len(trade_pnls)))
                                     ELSE Zero,
                   best_trade |-> IF trade_pnls # <<>>
                                  THEN PyMax(Tail(trade_pnls), trade_pnls[1])
                                  ELSE Zero,
                   worst_trade |-> IF trade_pnls # <<>>
                                   THEN PyMin(Tail(trade_pnls), trade_pnls[1])
                                   ELSE Zero,
                   daily_returns |-> daily_returns,
                   equity_curve |-> curve, trades |-> log, positions |-> open,
                   strategy_performance |-> strategy_performance]

\* line 142: _calculate_results on the engine's state
_calculate_results == Results(equity_curve, trades, positions)

\* the return of line 142, or the exception raised in it
CalculateResults ==
    /\ pc = "results"
    /\ result' = _calculate_results
    /\ pc' = IF _calculate_results.returned THEN "done" ELSE "raised"
    /\ gate_consulted' = FALSE
    /\ attempt' = NoAttempt
    /\ UNCHANGED <<args, current_date, last_equity_update, ledger, equity_curve,
                   risk, signals, market, visited>>

Next ==
    \/ StartBacktest
    \/ SkipWeekend
    \/ UpdatePositions
    \/ GenerateSignals
    \/ ExecuteTrades
    \/ CheckPositionExits
    \/ UpdateEquityCurve
    \/ CloseAllPositions
    \/ CalculateResults

Spec == Init /\ [][Next]_vars

\* run_backtest called again on the same engine when a call has returned or
\* raised: the fields of the engine are as the call left them, the locals of
\* the call are gone, and the database may hold any history
Rerun ==
    /\ pc \in {"done", "raised"}
    /\ call = NoCall
    /\ pc' = "idle"
    /\ call' = [op |-> "run_backtest",
                left |-> (trades # <<>> /\ equity_curve # <<>>
                          /\ current_capital # initial_capital)]
    /\ current_date' = NoDate
    /\ last_equity_update' = NoDate
    /\ signals' = <<>>
    /\ visited' = <<>>
    /\ result' = NoResult
    /\ gate_consulted' = FALSE
    /\ attempt' = NoAttempt
    /\ \E hist \in [Symbols -> BOOLEAN] :
          /\ close' = [s \in Symbols |-> IF hist[s] THEN BasePrice ELSE 0]
          /\ nbars' = [s \in Symbols |-> IF hist[s] THEN HistoryBars ELSE 0]
    /\ bar_today' = [s \in Symbols |-> FALSE]
    /\ UNCHANGED <<args, ledger, equity_curve, risk_positions>>

NextRerun ==
    \/ Next
    \/ Rerun

SpecRerun == Init /\ [][NextRerun]_vars

(***************************************************************************)
(* The handler of lines 134-136: an exception that escapes a call of the   *)
(* loop body is logged and the clock moves to the next day.  No call of    *)
(* the body lets an exception of the database or of a trader escape, so    *)
(* the handler is exercised in a specification of its own, where a call    *)
(* of the body may raise before it has changed anything.                   *)
(***************************************************************************)
\* a handler that leaves the loop instead of moving to the next day
DayErrorAbort ==
    /\ \/ pc \in {"signals", "trades", "equity"}
       \/ pc = "loop" /\ current_date <= end_date /\ ~IsWeekend(current_date)
    /\ visited' = IF pc = "loop" THEN Append(visited, current_date) ELSE visited
    /\ current_date' = end_date + 1
    /\ pc' = "loop"
    /\ signals' = <<>>
    /\ bar_today' = [s \in Symbols |-> FALSE]
    /\ gate_consulted' = FALSE
    /\ attempt' = NoAttempt
    /\ UNCHANGED <<args, last_equity_update, ledger, equity_curve, risk,
                   close, nbars, result>>

DayError ==
    /\ \/ pc \in {"signals", "trades", "equity"}
       \/ pc = "loop" /\ current_date <= end_date /\ ~IsWeekend(current_date)
    /\ visited' = IF pc = "loop" THEN Append(visited, current_date) ELSE visited
    /\ current_date' = current_date + 1
    /\ pc' = "loop"
    /\ signals' = <<>>
    /\ bar_today' = [s \in Symbols |-> FALSE]
    /\ gate_consulted' = FALSE
    /\ attempt' = NoAttempt
    /\ UNCHANGED <<args, last_equity_update, ledger, equity_curve, risk,
                   close, nbars, result>>

NextErr ==
    \/ Next
    \/ DayError

\* the run is sequential code: it keeps taking steps until it returns
SpecErr == Init /\ [][NextErr]_vars /\ WF_vars(NextErr)

(***************************************************************************)
(* RiskManager called directly, and the step of the production engine that *)
(* consults it (src/trading_system/trading_engine.py).  The engine         *)
(* variables keep their initial values; pc = "risk".                       *)
(***************************************************************************)
\* the symbols positions are tracked for: one more than max_positions
RiskSymbolList == <<"A", "B", "C", "D", "E", "F", "G", "H", "J", "K", "L">>

\* arguments the methods are called with
RiskQuantity == I(10)
RiskEntry == I(100)
RiskMarks == {I(40), I(100), I(160)}
PortfolioValues == {I(1000), I(2000), I(10000)}
Correlations == {Zero, R(8, 10)}
AskedSymbols == {RiskSymbolList[1], RiskSymbolList[Len(RiskSymbolList)]}

\* add_position with stop_loss and take_profit left at None
add_position(rpos, symbol, quantity, entry_price, side) ==
    LET stop_loss == IF side = "long"
                     THEN RMul(entry_price, RSub(I(1), stop_loss_pct))
                     ELSE RMul(entry_price, RAdd(I(1), stop_loss_pct))
        take_profit == IF side = "long"
                       THEN RMul(entry_price, RAdd(I(1), take_profit_pct))
                       ELSE RMul(entry_price, RSub(I(1), take_profit_pct))
    IN  Put(rpos, [symbol |-> symbol, quantity |-> quantity,
                   entry_price |-> entry_price, current_price |-> entry_price,
                   side |-> side, stop_loss |-> stop_loss,
                   take_profit |-> take_profit])

update_position(rpos, symbol, current_price) ==
    [i \in 1..Len(rpos) |->
        IF rpos[i].symbol = symbol
        THEN [rpos[i] EXCEPT !.current_price = current_price]
        ELSE rpos[i]]

remove_position(rpos, symbol) == Del(rpos, symbol)

\* the risk level calculate_portfolio_risk reports
RiskLevelOf(rpos, portfolio_value) ==
    calculate_portfolio_risk(rpos, portfolio_value, Zero).risk_level

InitRisk ==
    /\ pc = "risk"
    /\ initial_capital = Zero
    /\ start_date = FirstDay
    /\ end_date = FirstDay
    /\ commission = Zero
    /\ current_date = NoDate
    /\ last_equity_update = NoDate
    /\ current_capital = Zero
    /\ positions = <<>>
    /\ trades = <<>>
    /\ equity_curve = <<>>
    /\ risk_positions = <<>>
    /\ signals = <<>>
    /\ close = [s \in Symbols |-> 0]
    /\ nbars = [s \in Symbols |-> 0]
    /\ bar_today = [s \in Symbols |-> FALSE]
    /\ gate_consulted = FALSE
    /\ attempt = NoAttempt
    /\ visited = <<>>
    /\ result = NoResult
    /\ call = NoCall

engine == <<pc, args, current_date, last_equity_update, ledger, equity_curve,
            signals, market, observed, visited, result>>

\* add_position for the next symbol not tracked yet
RiskAddPosition ==
    /\ pc = "risk"
    /\ \E k \in 1..Len(RiskSymbolList), side \in {"long", "short"} :
          /\ ~RiskHas(risk_positions, RiskSymbolList[k])
          /\ \A j \in 1..(k - 1) : RiskHas(risk_positions, RiskSymbolList[j])
          /\ side = "short" => k = 1
          /\ risk_positions' = add_position(risk_positions, RiskSymbolList[k],
                                            RiskQuantity, RiskEntry, side)
          /\ call' = [op |-> "add_position", symbol |-> RiskSymbolList[k]]
    /\ UNCHANGED engine

\* update_position of the first symbol
RiskUpdatePosition ==
    /\ pc = "risk"
    /\ \E current_price \in RiskMarks :
          /\ risk_positions' = update_position(risk_positions, RiskSymbolList[1],
                                               current_price)
          /\ call' = [op |-> "update_position", symbol |-> RiskSymbolList[1]]
    /\ UNCHANGED engine

\* remove_position of the symbol added last
RiskRemovePosition ==
    /\ pc = "risk"
    /\ risk_positions # <<>>
    /\ LET symbol == risk_positions[Len(risk_positions)].symbol
       IN  /\ risk_positions' = remove_position(risk_positions, symbol)
           /\ call' = [op |-> "remove_position", symbol |-> symbol]
    /\ UNCHANGED engine

\* should_trade called with a positive portfolio value
RiskShouldTrade ==
    /\ pc = "risk"
    /\ \E symbol \in AskedSymbols, signal \in TraderSignals,
          portfolio_value \in PortfolioValues, correlation \in Correlations :
          call' = [op |-> "should_trade", symbol |-> symbol, signal |-> signal,
                   portfolio_value |-> portfolio_value,
                   correlation |-> correlation,
                   approved |-> should_trade(risk_positions, symbol, signal,
                                             portfolio_value, correlation)]
    /\ UNCHANGED <<engine, risk_positions>>

(***************************************************************************)
(* TradingEngine._execute_trades, for one symbol of the signals dict.      *)
(* An order is [side, symbol, quantity] or NoOrder; order_id tells whether *)
(* the broker accepted it.                                                 *)
(***************************************************************************)
NoOrder == [side |-> "none"]

BrokerPrices == {Zero, I(100)}

DefaultVolatility == R(2, 100)

\* lines 261-295
_execute_buy_order(rpos, symbol, price, portfolio_value, volatility, order_id) ==
    LET position_size == calculate_position_size(portfolio_value, price, volatility)
        quantity == RDiv(position_size, price)
    IN  IF RLe(position_size, Zero) THEN [positions |-> rpos, order |-> NoOrder]
        ELSE IF order_id
        THEN [positions |-> add_position(rpos, symbol, quantity, price, "long"),
              order |-> [side |-> "buy", symbol |-> symbol, quantity |-> quantity]]
        ELSE [positions |-> rpos, order |-> NoOrder]

\* lines 297-323
_execute_sell_order(rpos, symbol, price, order_id) ==
    IF ~RiskHas(rpos, symbol) THEN [positions |-> rpos, order |-> NoOrder]
    ELSE IF order_id
    THEN [positions |-> remove_position(rpos, symbol),
          order |-> [side |-> "sell", symbol |-> symbol,
                     quantity |-> Get(rpos, symbol).quantity]]
    ELSE [positions |-> rpos, order |-> NoOrder]

\* lines 233-259: the body of the loop; market_data is an empty frame, so the
\* correlation score is 0
_execute_trades(rpos, symbol, primary_signal, portfolio_value, current_price, volatility, order_id) ==
    IF ~should_trade(rpos, symbol, primary_signal, portfolio_value, Zero)
    THEN [positions |-> rpos, order |-> NoOrder]
    ELSE IF ~Truthy(current_price) THEN [positions |-> rpos, order |-> NoOrder]
    ELSE IF primary_signal = "BUY"
    THEN _execute_buy_order(rpos, symbol, current_price, portfolio_value,
                            volatility, order_id)
    ELSE IF primary_signal = "SELL"
    THEN _execute_sell_order(rpos, symbol, current_price, order_id)
    ELSE [positions |-> rpos, order |-> NoOrder]

\* the symbols the production engine is configured with
TradedSymbols == {RiskSymbolList[1], RiskSymbolList[2]}

\* what the broker reports: the latest price of a symbol (0: none) and the
\* portfolio value
BrokerMarks == {Zero, I(40)}
BrokerValues == {I(1000), I(10000)}

\* the loop of _update_risk_metrics, lines 345-348: update_position for every
\* symbol the broker has a price for, in the order of self.symbols
MarkAll(rpos, price) ==
    LET first == IF Truthy(price[RiskSymbolList[1]])
                 THEN update_position(rpos, RiskSymbolList[1], price[RiskSymbolList[1]])
                 ELSE rpos
    IN  IF Truthy(price[RiskSymbolList[2]])
        THEN update_position(first, RiskSymbolList[2], price[RiskSymbolList[2]])
        ELSE first

\* _update_risk_metrics, lines 338-360
ProductionUpdateRiskMetrics ==
    /\ pc = "risk"
    /\ \E price \in [TradedSymbols -> BrokerMarks] :
          risk_positions' = MarkAll(risk_positions, price)
    /\ call' = [op |-> "_update_risk_metrics"]
    /\ UNCHANGED engine

\* one iteration of the loop of _execute_trades, lines 233-259
ProductionExecuteTrades ==
    /\ pc = "risk"
    /\ \E symbol \in TradedSymbols, primary_signal \in TraderSignals,
          portfolio_value \in BrokerValues,
          current_price \in BrokerPrices, order_id \in BOOLEAN :
          LET done == _execute_trades(risk_positions, symbol, primary_signal,
                                      portfolio_value, current_price,
                                      DefaultVolatility, order_id)
              portfolio_risk == calculate_portfolio_risk(risk_positions,
                                                         portfolio_value, Zero)
          IN  /\ risk_positions' = done.positions
              /\ call' = [op |-> "_execute_trades", symbol |-> symbol,
                          signal |-> primary_signal,
                          portfolio_value |-> portfolio_value,
                          current_price |-> current_price,
                          order_id |-> order_id,
                          held |-> RiskHas(risk_positions, symbol),
                          count |-> Len(risk_positions),
                          risk_level |-> portfolio_risk.risk_level,
                          daily_pnl |-> portfolio_risk.daily_pnl,
                          order |-> done.order]
    /\ UNCHANGED engine

\* prices check_stop_loss_take_profit is called with: below, at and above
\* each default threshold of a position entered at RiskEntry, long or short
ExitPrices == {I(80), I(85), I(90), I(95), I(100), I(105), I(110), I(115), I(120)}

\* the check with the thresholds themselves left out of the exit ranges
check_stop_loss_take_profit_strict(rpos, symbol, current_price) ==
    IF ~RiskHas(rpos, symbol) THEN [exit |-> FALSE, reason |-> ""]
    ELSE LET position == Get(rpos, symbol)
         IN  IF position.side = "long"
             THEN IF Truthy(position.stop_loss) /\ RLt(current_price, position.stop_loss)
                  THEN [exit |-> TRUE, reason |-> "stop_loss"]
                  ELSE IF /\ Truthy(position.take_profit)
                          /\ RGt(current_price, position.take_profit)
                  THEN [exit |-> TRUE, reason |-> "take_profit"]
                  ELSE [exit |-> FALSE, reason |-> ""]
             ELSE IF Truthy(position.stop_loss) /\ RGt(current_price, position.stop_loss)
                  THEN [exit |-> TRUE, reason |-> "stop_loss"]
                  ELSE IF /\ Truthy(position.take_profit)
                          /\ RLt(current_price, position.take_profit)
                  THEN [exit |-> TRUE, reason |-> "take_profit"]
                  ELSE [exit |-> FALSE, reason |-> ""]

\* check_stop_loss_take_profit, lines 77-95
check_stop_loss_take_profit(rpos, symbol, current_price) ==
    IF ~RiskHas(rpos, symbol) THEN [exit |-> FALSE, reason |-> ""]
    ELSE LET position == Get(rpos, symbol)
         IN  IF position.side = "long"
             THEN IF Truthy(position.stop_loss) /\ RLe(current_price, position.stop_loss)
                  THEN [exit |-> TRUE, reason |-> "stop_loss"]
                  ELSE IF /\ Truthy(position.take_profit)
                          /\ RGe(current_price, position.take_profit)
                  THEN [exit |-> TRUE, reason |-> "take_profit"]
                  ELSE [exit |-> FALSE, reason |-> ""]
             ELSE IF Truthy(position.stop_loss) /\ RGe(current_price, position.stop_loss)
                  THEN [exit |-> TRUE, reason |-> "stop_loss"]
                  ELSE IF /\ Truthy(position.take_profit)
                          /\ RLe(current_price, position.take_profit)
                  THEN [exit |-> TRUE, reason |-> "take_profit"]
                  ELSE [exit |-> FALSE, reason |-> ""]

\* check_stop_loss_take_profit called for a symbol and a price
RiskCheckExit ==
    /\ pc = "risk"
    /\ \E symbol \in AskedSymbols, current_price \in ExitPrices :
          call' = [op |-> "check_stop_loss_take_profit", symbol |-> symbol,
                   current_price |-> current_price,
                   returned |-> check_stop_loss_take_profit(risk_positions, symbol,
                                                            current_price)]
    /\ UNCHANGED <<engine, risk_positions>>

NextRisk ==
    \/ RiskAddPosition
    \/ RiskUpdatePosition
    \/ RiskRemovePosition
    \/ RiskShouldTrade
    \/ RiskCheckExit

SpecRisk == InitRisk /\ [][NextRisk]_vars

NextProduction ==
    \/ ProductionUpdateRiskMetrics
    \/ ProductionExecuteTrades

SpecProduction == InitRisk /\ [][NextProduction]_vars

(***************************************************************************)
(* Functions called on their own: a step applies one function to arguments *)
(* drawn from small sets and records the call and what it returned.  The   *)
(* functions read nothing but their arguments and the configuration, so a  *)
(* behaviour makes one call.                                               *)
(***************************************************************************)
\* arguments of _determine_risk_level: on, between and beyond the thresholds
LevelReturns == {R(0 - 6, 100), R(0 - 3, 100), Zero, R(25, 1000), R(5, 100), R(6, 100)}
LevelDrawdowns == {Zero, R(0 - 75, 1000), R(0 - 10, 100), R(0 - 15, 100), R(0 - 20, 100)}
\* position values whose std / mean is 0, 0, 3%, 3.85%, 5% and 9.1%
LevelValues == {<<I(100)>>, <<I(100), I(100)>>, <<I(97), I(103)>>,
                <<I(100), I(108)>>, <<I(95), I(105)>>, <<I(100), I(120)>>}
LevelCounts == {0, 8, 9, 10, 11}

CallDetermineRiskLevel ==
    /\ pc = "risk"
    /\ call = NoCall
    /\ \E daily_return \in LevelReturns, drawdown \in LevelDrawdowns,
          values \in LevelValues, position_count \in LevelCounts :
          call' = [op |-> "_determine_risk_level", daily_return |-> daily_return,
                   drawdown |-> drawdown, values |-> values,
                   position_count |-> position_count,
                   returned |-> _determine_risk_level(daily_return, drawdown,
                                                      values, position_count)]
    /\ UNCHANGED <<engine, risk_positions>>

\* arguments of calculate_position_size
SizeValues == {Zero, I(1000), I(100000)}
SizeVolatilities == {Zero, R(2, 100), R(1, 10), I(1)}

CallCalculatePositionSize ==
    /\ pc = "risk"
    /\ call = NoCall
    /\ \E portfolio_value \in SizeValues, price \in RiskMarks,
          volatility \in SizeVolatilities :
          call' = [op |-> "calculate_position_size",
                   portfolio_value |-> portfolio_value, price |-> price,
                   volatility |-> volatility,
                   returned |-> calculate_position_size(portfolio_value, price,
                                                        volatility)]
    /\ UNCHANGED <<engine, risk_positions>>

\* ledgers _execute_sell is called on: no, one or two open positions
SellPosition(symbol) == NewPosition(symbol, I(5), BasePrice, FirstDay)
SellPositions ==
    {<<>>, <<SellPosition("A")>>, <<SellPosition("B")>>,
     <<SellPosition("A"), SellPosition("B")>>,
     <<SellPosition("B"), SellPosition("A")>>}
SellLedgers ==
    {[cash |-> cash, positions |-> open, trades |-> log] :
        cash \in {Zero, I(1000)}, open \in SellPositions,
        log \in {<<>>, <<BuyTrade("A", I(5), BasePrice, FirstDay, Zero)>>}}

CallExecuteSell ==
    /\ pc = "risk"
    /\ call = NoCall
    /\ \E L \in SellLedgers, symbol \in Symbols, price \in AllPrices,
          rate \in Commissions :
          call' = [op |-> "_execute_sell", before |-> L, symbol |-> symbol,
                   price |-> price, date |-> LastDay, rate |-> rate,
                   after |-> _execute_sell(L, symbol, price, LastDay, rate)]
    /\ UNCHANGED <<engine, risk_positions>>

\* equity curves _calculate_results is called on: up to CurveLen snapshots
\* on consecutive days, no position open
CurveLen == 4
EquityValues == {I(50), I(100), I(200), I(900), I(1000)}
Snapshot(date, equity) ==
    [date |-> date, equity |-> equity, capital |-> equity, positions_value |-> Zero]
EquityCurves ==
    UNION {{[i \in 1..n |-> Snapshot(i, e[i])] : e \in [1..n -> EquityValues]} :
           n \in 0..CurveLen}
\* trade logs: none, or one round trip in A
TradeLogs ==
    {<<>>,
     _execute_sell(_execute_buy([cash |-> I(1000), positions |-> <<>>, trades |-> <<>>],
                                "A", 100, 1, Zero, Zero),
                   "A", 120, 2, Zero).trades}

CallCalculateResults ==
    /\ pc = "risk"
    /\ call = NoCall
    /\ \E curve \in EquityCurves, log \in TradeLogs :
          call' = [op |-> "_calculate_results", curve |-> curve, log |-> log,
                   returned |-> Results(curve, log, <<>>)]
    /\ UNCHANGED <<engine, risk_positions>>

\* what a call of a trader's generate_signal does: answer, or raise
TraderOutcomes == TraderSignals \cup {"RAISE"}

\* list.count
Count(seq, x) == Cardinality({i \in 1..Len(seq) : seq[i] = x})

\* the ensemble branch without the inner try of lines 173-176: a trader's
\* exception reaches the handler of line 191, which answers HOLD
EnsembleSignalUncaught(outcome) ==
    IF \E i \in 1..Len(outcome) : outcome[i] = "RAISE" THEN "HOLD"
    ELSE LET buy_count == Count(outcome, "BUY")
             sell_count == Count(outcome, "SELL")
         IN  IF buy_count > sell_count THEN "BUY"
             ELSE IF sell_count > buy_count THEN "SELL"
             ELSE "HOLD"

\* the ensemble branch answering BUY or SELL only on the votes of more than
\* half of the traders
EnsembleSignalStrictMajority(outcome) ==
    LET all_signals == [i \in 1..Len(outcome) |->
                           IF outcome[i] = "RAISE" THEN "HOLD" ELSE outcome[i]]
    IN  IF 2 * Count(all_signals, "BUY") > Len(all_signals) THEN "BUY"
        ELSE IF 2 * Count(all_signals, "SELL") > Len(all_signals) THEN "SELL"
        ELSE "HOLD"

\* the ensemble branch of _generate_signals, lines 170-187; outcome[i] is
\* what the i-th trader's generate_signal did
EnsembleSignal(outcome) ==
    LET all_signals == [i \in 1..Len(outcome) |->
                           IF outcome[i] = "RAISE" THEN "HOLD" ELSE outcome[i]]
        buy_count == Count(all_signals, "BUY")
        sell_count == Count(all_signals, "SELL")
    IN  IF buy_count > sell_count THEN "BUY"
        ELSE IF sell_count > buy_count THEN "SELL"
        ELSE "HOLD"

CallEnsembleSignal ==
    /\ pc = "risk"
    /\ call = NoCall
    /\ \E outcome \in [1..Len(TraderNames) -> TraderOutcomes] :
          call' = [op |-> "ensemble", outcome |-> outcome,
                   returned |-> EnsembleSignal(outcome)]
    /\ UNCHANGED <<engine, risk_positions>>

\* MultiFactorTrader._signal_to_score
_signal_to_score(signal) ==
    IF signal = "BUY" THEN 1 ELSE IF signal = "SELL" THEN -1 ELSE 0

\* the weights of MultiFactorTrader.__init__ and the threshold of line 173
TechnicalWeight == R(4, 10)
FundamentalWeight == R(3, 10)
SentimentWeight == R(3, 10)
ScoreThreshold == R(3, 10)

\* final_score of MultiFactorTrader.generate_signal from the four sub-signals
FinalScore(momentum, mean_rev, fundamental, sentiment) ==
    LET technical_score ==
            RDiv(I(_signal_to_score(momentum) + _signal_to_score(mean_rev)), I(2))
    IN  RAdd(RAdd(RMul(technical_score, TechnicalWeight),
                  RMul(I(_signal_to_score(fundamental)), FundamentalWeight)),
             RMul(I(_signal_to_score(sentiment)), SentimentWeight))

\* the multi-factor rule with the thresholds included in BUY and SELL
MultiFactorSignalInclusive(momentum, mean_rev, fundamental, sentiment) ==
    LET final_score == FinalScore(momentum, mean_rev, fundamental, sentiment)
    IN  IF RGe(final_score, ScoreThreshold) THEN "BUY"
        ELSE IF RLe(final_score, RNeg(ScoreThreshold)) THEN "SELL"
        ELSE "HOLD"

\* MultiFactorTrader.generate_signal, given what the four sub-traders answer
MultiFactorSignal(momentum, mean_rev, fundamental, sentiment) ==
    LET final_score == FinalScore(momentum, mean_rev, fundamental, sentiment)
    IN  IF RGt(final_score, ScoreThreshold) THEN "BUY"
        ELSE IF RLt(final_score, RNeg(ScoreThreshold)) THEN "SELL"
        ELSE "HOLD"

CallMultiFactor ==
    /\ pc = "risk"
    /\ call = NoCall
    /\ \E momentum \in TraderSignals, mean_rev \in TraderSignals,
          fundamental \in TraderSignals, sentiment \in TraderSignals :
          call' = [op |-> "multifactor",
                   momentum |-> momentum, mean_rev |-> mean_rev,
                   fundamental |-> fundamental, sentiment |-> sentiment,
                   score |-> FinalScore(momentum, mean_rev, fundamental, sentiment),
                   returned |-> MultiFactorSignal(momentum, mean_rev,
                                                  fundamental, sentiment)]
    /\ UNCHANGED <<engine, risk_positions>>

\* ---------------------------------------------------------------------------
\* The traders of trading_strategies.py on a data snapshot.  A DataFrame is a
\* function from column names to columns of equal length, newest row first;
\* the argument of generate_signal is a dict of DataFrames, or a str.

\* parameters of the traders' constructors
pe_threshold_low == I(20)
pe_threshold_high == I(35)
growth_threshold == R(5, 100)
sentiment_threshold == R(3, 10)
min_articles == 2
lookback_period == 5
volume_threshold == R(13, 10)
ma_period == 20
deviation_threshold == R(3, 100)

\* len(df)
Rows(df) == IF DOMAIN df = {} THEN 0 ELSE Len(df[CHOOSE c \in DOMAIN df : TRUE])

\* df[name] = column
WithColumn(df, name, column) ==
    [c \in DOMAIN df \cup {name} |-> IF c = name THEN column ELSE df[c]]

\* Series.mean(): the mean of the values that are not NaN, NaN if there is none
SeriesMean(column) ==
    LET kept == SelectSeq(column, LAMBDA x : ~IsNaN(x))
    IN  IF kept = <<>> THEN NaN ELSE RDiv(RSum(kept), I(Len(kept)))

\* Series.pct_change(): the change from the row before, NaN in the first row
PctChange(column) ==
    [i \in 1..Len(column) |->
        IF i = 1 THEN NaN
        ELSE RDiv(RSub(column[i], column[i - 1]), column[i - 1])]

\* Series.rolling(window).mean(): NaN until the window is full
RollingMean(column, window) ==
    [i \in 1..Len(column) |->
        IF i < window THEN NaN
        ELSE RDiv(RSum(SubSeq(column, i - window + 1, i)), I(window))]

\* Series.head(n)
Head_(column, n) == SubSeq(column, 1, Min(n, Len(column)))

\* what the body of a generate_signal did: the signal it returned or the
\* exception it raised, and the argument as the body left it
Returned(signal, data) == [raised |-> "none", signal |-> signal, data |-> data]
RaisedIn(exception, data) == [raised |-> exception, signal |-> "none", data |-> data]

\* data[key] of lines 20, 53, 78 and 110: a str cannot be indexed by a str
Lookup(data, key) ==
    IF data.kind = "str" THEN "TypeError"
    ELSE IF key \notin DOMAIN data.items THEN "KeyError"
    ELSE "none"

\* the dict with one of its frames replaced by the frame the trader wrote to
WithFrame(data, key, df) == [data EXCEPT !.items = [@ EXCEPT ![key] = df]]

\* lines 20-39: the body of FundamentalTrader.generate_signal
FundamentalBody(data) ==
    IF Lookup(data, "financial_metrics") # "none"
    THEN RaisedIn(Lookup(data, "financial_metrics"), data)
    ELSE LET metrics == data.items["financial_metrics"]
             get(name) == IF name \in DOMAIN metrics THEN metrics[name][1] ELSE NaN
             pe == get("pe_ratio")
             rev_growth == get("revenue_growth")
             earn_growth == get("earnings_growth")
         IN  IF Rows(metrics) = 0 THEN Returned("HOLD", data)
             ELSE IF IsNaN(pe) \/ IsNaN(rev_growth) \/ IsNaN(earn_growth)
             THEN Returned("HOLD", data)
             ELSE IF /\ RLt(pe, pe_threshold_low)
                     /\ RGt(rev_growth, growth_threshold)
                     /\ RGt(earn_growth, growth_threshold)
             THEN Returned("BUY", data)
             ELSE IF RGt(pe, pe_threshold_high) THEN Returned("SELL", data)
             ELSE Returned("HOLD", data)

\* lines 53-65: the body of SentimentTrader.generate_signal
SentimentBody(data) ==
    IF Lookup(data, "news_sentiment") # "none"
    THEN RaisedIn(Lookup(data, "news_sentiment"), data)
    ELSE LET sentiment == data.items["news_sentiment"]
         IN  IF Rows(sentiment) = 0 \/ Rows(sentiment) < min_articles
             THEN Returned("HOLD", data)
             ELSE IF "sentiment_score" \notin DOMAIN sentiment
             THEN RaisedIn("KeyError", data)
             ELSE LET avg == SeriesMean(sentiment["sentiment_score"])
                  IN  IF RGt(avg, sentiment_threshold) THEN Returned("BUY", data)
                      ELSE IF RLt(avg, RNeg(sentiment_threshold))
                      THEN Returned("SELL", data)
                      ELSE Returned("HOLD", data)

\* lines 78-97: the body of MomentumTrader.generate_signal; lines 83 and 84
\* write the columns returns and volume_ratio into the caller's frame
MomentumBody(data) ==
    IF Lookup(data, "market_data") # "none"
    THEN RaisedIn(Lookup(data, "market_data"), data)
    ELSE LET df == data.items["market_data"]
         IN  IF Rows(df) = 0 THEN Returned("HOLD", data)
             ELSE IF "close_price" \notin DOMAIN df THEN RaisedIn("KeyError", data)
             ELSE LET df1 == WithColumn(df, "returns", PctChange(df["close_price"]))
                  IN  IF "volume" \notin DOMAIN df1
                      THEN RaisedIn("KeyError", WithFrame(data, "market_data", df1))
                      ELSE LET rolled == RollingMean(df1["volume"], 20)
                               df2 == WithColumn(df1, "volume_ratio",
                                          [i \in 1..Rows(df1) |->
                                              RDiv(df1["volume"][i], rolled[i])])
                               after == WithFrame(data, "market_data", df2)
                               momentum ==
                                   SeriesMean(Head_(df2["returns"], lookback_period))
                               volume_signal ==
                                   RGt(SeriesMean(Head_(df2["volume_ratio"],
                                                        lookback_period)),
                                       volume_threshold)
                           IN  IF RGt(momentum, R(1, 100)) /\ volume_signal
                               THEN Returned("BUY", after)
                               ELSE IF RLt(momentum, R(-1, 100)) /\ volume_signal
                               THEN Returned("SELL", after)
                               ELSE Returned("HOLD", after)

\* lines 110-126: the body of MeanReversionTrader.generate_signal; lines 115
\* and 116 write the columns ma and deviation into the caller's frame
MeanReversionBody(data) ==
    IF Lookup(data, "market_data") # "none"
    THEN RaisedIn(Lookup(data, "market_data"), data)
    ELSE LET df == data.items["market_data"]
         IN  IF Rows(df) = 0 THEN Returned("HOLD", data)
             ELSE IF "close_price" \notin DOMAIN df THEN RaisedIn("KeyError", data)
             ELSE LET ma == RollingMean(df["close_price"], ma_period)
                      df1 == WithColumn(df, "ma", ma)
                      df2 == WithColumn(df1, "deviation",
                                 [i \in 1..Rows(df1) |->
                                     RDiv(RSub(df1["close_price"][i], df1["ma"][i]),
                                          df1["ma"][i])])
                      after == WithFrame(data, "market_data", df2)
                      latest_dev == df2["deviation"][1]
                  IN  IF RLt(latest_dev, RNeg(deviation_threshold))
                      THEN Returned("BUY", after)
                      ELSE IF RGt(latest_dev, deviation_threshold)
                      THEN Returned("SELL", after)
                      ELSE Returned("HOLD", after)

\* the body of a trader that is not a composition of others
TraderBody(variant, data) ==
    CASE variant = "fundamental" -> FundamentalBody(data)
      [] variant = "sentiment" -> SentimentBody(data)
      [] variant = "momentum" -> MomentumBody(data)
      [] variant = "mean_reversion" -> MeanReversionBody(data)

\* a generate_signal whose body is not inside a try statement
Uncaught(outcome) == outcome

\* the try/except of every generate_signal: an exception is logged and
\* answered with HOLD
Caught(outcome) ==
    IF outcome.raised = "none" THEN outcome ELSE Returned("HOLD", outcome.data)

\* lines 150-176: MultiFactorTrader.generate_signal calls its four traders
\* in turn on the same argument
MultiFactorBody(data) ==
    CHOOSE outcome \in
        UNION {UNION {UNION {
            {Returned(MultiFactorSignal(m.signal, r.signal, f.signal, s.signal), s.data)
                : s \in {Caught(SentimentBody(f.data))}}
                : f \in {Caught(FundamentalBody(r.data))}}
                : r \in {Caught(MeanReversionBody(m.data))}}
                : m \in {Caught(MomentumBody(data))}} : TRUE

\* generate_signal of the trader registered under a name in self.traders
generate_signal(variant, data) ==
    IF variant = "multifactor" THEN Caught(MultiFactorBody(data))
    ELSE Caught(TraderBody(variant, data))

\* a key the dict does not have
Absent == [absent |-> <<>>]

\* market bars: the columns of the database, the columns the traders read,
\* a frame without volume, and a frame without rows
MarketFrames ==
    { Absent,
      [close |-> <<I(110), I(100)>>, volume |-> <<I(30), I(10)>>],
      [close_price |-> <<I(110), I(100)>>, volume |-> <<I(30), I(10)>>],
      [close_price |-> <<I(110), I(100)>>],
      [close_price |-> <<>>, volume |-> <<>>] }

FundamentalFrames ==
    { Absent,
      [pe_ratio |-> <<I(10)>>, revenue_growth |-> <<R(1, 10)>>,
       earnings_growth |-> <<R(1, 10)>>],
      [pe_ratio |-> <<I(40)>>, revenue_growth |-> <<R(1, 10)>>,
       earnings_growth |-> <<R(1, 10)>>],
      [pe_ratio |-> <<I(10)>>, revenue_growth |-> <<R(1, 10)>>],
      [pe_ratio |-> <<>>, revenue_growth |-> <<>>, earnings_growth |-> <<>>] }

SentimentFrames ==
    { Absent,
      [sentiment_score |-> <<R(1, 2), R(1, 2)>>],
      [sentiment_score |-> <<R(-1, 2), R(-1, 2)>>],
      [sentiment_score |-> <<R(1, 2)>>],
      [relevance |-> <<R(1, 2), R(1, 2)>>] }

\* the dict of the frames that are present
DictOf(market_data, financial_metrics, news_sentiment) ==
    LET all == [market_data |-> market_data, financial_metrics |-> financial_metrics,
                news_sentiment |-> news_sentiment]
    IN  [kind |-> "dict",
         items |-> [k \in {key \in DOMAIN all : all[key] # Absent} |-> all[k]]]

\* a str, as lines 166 and 168 of backtesting.py pass
StrOf(symbol) == [kind |-> "str", value |-> symbol]

Snapshots ==
    { DictOf(m, f, s) : m \in MarketFrames, f \in FundamentalFrames,
                        s \in SentimentFrames }

\* what the body of the named trader did with the argument
BodyOf(variant, data) ==
    IF variant = "multifactor" THEN MultiFactorBody(data) ELSE TraderBody(variant, data)

\* one call of a trader's generate_signal
CallGenerateSignal ==
    /\ pc = "risk"
    /\ call = NoCall
    /\ \E i \in 1..Len(TraderNames), data \in Snapshots \cup {StrOf(SymbolList[1])} :
          LET variant == TraderNames[i]
              outcome == generate_signal(variant, data)
          IN  call' = [op |-> "generate_signal", variant |-> variant, data |-> data,
                       body |-> BodyOf(variant, data).raised,
                       raised |-> outcome.raised,
                       returned |-> outcome.signal,
                       data_after |-> outcome.data]
    /\ UNCHANGED <<engine, risk_positions>>

\* the strategy argument of run_backtest: a key of self.traders, or any
\* other name, which selects the vote of all traders
Strategies == {TraderNames[i] : i \in 1..Len(TraderNames)} \cup {"ensemble"}

\* lines 165-187 of backtesting.py: the signal for a symbol that has bars;
\* the argument handed to generate_signal is the symbol
SignalFor(strategy, symbol) ==
    IF strategy \in {TraderNames[i] : i \in 1..Len(TraderNames)}
    THEN generate_signal(strategy, StrOf(symbol)).signal
    ELSE EnsembleSignal([i \in 1..Len(TraderNames) |->
                            generate_signal(TraderNames[i], StrOf(symbol)).signal])

\* what db.get_market_data of line 160 does for a symbol
LookupOutcomes == {"raise", "empty", "bars"}

\* _generate_signals, lines 153-195: a symbol without bars is skipped, an
\* exception in the loop body is answered with HOLD for that symbol
_generate_signals(symbols, lookup, strategy) ==
    CHOOSE signals_ \in
        {SignalsOf(sig) : sig \in
            {[s \in Symbols |->
                 IF \A i \in 1..Len(symbols) : symbols[i] # s THEN "NONE"
                 ELSE IF lookup[s] = "raise" THEN "HOLD"
                 ELSE IF lookup[s] = "empty" THEN "NONE"
                 ELSE SignalFor(strategy, s)]}} : TRUE

\* lines 199-219 of backtesting.py for one symbol whose price is known
BacktestTrade(L, symbol, signal, current_price, date, fee, volatility) ==
    IF signal = "BUY" /\ ~Has(L.positions, symbol)
    THEN IF should_trade(<<>>, symbol, signal, L.cash, Zero)
         THEN _execute_buy(L, symbol, current_price, date, fee, volatility)
         ELSE L
    ELSE IF signal = "SELL" /\ Has(L.positions, symbol)
    THEN _execute_sell(L, symbol, current_price, date, fee)
    ELSE L

\* a ledger before the first trade
FreshLedger == [cash |-> I(100000), positions |-> <<>>, trades |-> <<>>]

\* one day of the loop for the symbols: _generate_signals, then the trade
\* of the first symbol; snapshot is the data of that symbol as of the day
CallGenerateSignals ==
    /\ pc = "risk"
    /\ call = NoCall
    /\ \E strategy \in Strategies, lookup \in [Symbols -> LookupOutcomes],
          snapshot \in Snapshots :
          \E returned \in {_generate_signals(SymbolList, lookup, strategy)} :
          \E acted \in {IF returned # <<>> /\ returned[1].symbol = SymbolList[1]
                         THEN returned[1].signal ELSE "NONE"} :
             call' = [op |-> "generate_signals", strategy |-> strategy,
                      lookup |-> lookup, snapshot |-> snapshot,
                      returned |-> returned, symbol |-> SymbolList[1],
                      acted |-> acted, before |-> FreshLedger,
                      after |-> BacktestTrade(FreshLedger, SymbolList[1], acted,
                                              BasePrice, FirstDay, R(1, 10),
                                              R(2, 100))]
    /\ UNCHANGED <<engine, risk_positions>>

\* ---------------------------------------------------------------------------
\* NewsDataCollector.collect_and_store, with the state of the call in call

\* the defaults of MAX_RETRIES and RETRY_DELAY, lines 21 and 22
DefaultMaxRetries == 3
retry_delay == 5

\* what news_api.get_everything of line 93 does: it raises, answers with
\* articles, answers with none, or answers with a status that is not ok
ApiOutcomes == {"raise", "articles", "no_articles", "not_ok"}

\* a handler that sleeps after every failed attempt, the last included
AfterFailureAlwaysSleep(this_attempt, max_retries) == "sleep"

\* lines 108-112: after a failed attempt, sleep unless it was the last one
AfterFailure(this_attempt, max_retries) ==
    IF this_attempt < max_retries - 1 THEN "sleep" ELSE "raise"

\* collect_and_store is done with the ticker at the head of the list
NextTicker(c, fetch, stored) ==
    [c EXCEPT !.log = Append(@, [ticker |-> Head(c.tickers),
                                 attempts |-> c.attempts, failed |-> c.failed,
                                 slept |-> c.slept,
                                 fetch |-> fetch, stored |-> stored]),
              !.tickers = Tail(@),
              !.attempt = 0, !.attempts = 0, !.failed = 0, !.slept = <<>>,
              !.at = IF Tail(c.tickers) = <<>> THEN "returned" ELSE "fetch"]

\* lines 163-165: collect_and_store is called for the tickers
CollectAndStore ==
    /\ pc = "risk"
    /\ call = NoCall
    /\ \E max_retries \in 0..DefaultMaxRetries :
          call' = [op |-> "collect_and_store", max_retries |-> max_retries,
                   tickers |-> SymbolList, at |-> "fetch",
                   attempt |-> 0, attempts |-> 0, failed |-> 0, slept |-> <<>>,
                   log |-> <<>>, raised |-> FALSE]
    /\ UNCHANGED <<engine, risk_positions>>

\* lines 91-112: one pass of the loop of fetch_news, and what
\* collect_and_store does with what fetch_news returns or raises
FetchAttempt ==
    /\ call.op = "collect_and_store"
    /\ call.at = "fetch"
    /\ call.attempt < call.max_retries
    /\ \E outcome \in ApiOutcomes :
          LET made == [call EXCEPT !.attempts = @ + 1]
              failure == [made EXCEPT !.failed = @ + 1]
          IN  call' =
                IF outcome = "raise"
                THEN IF AfterFailure(call.attempt, call.max_retries) = "sleep"
                     THEN [failure EXCEPT !.at = "sleep"]
                     ELSE NextTicker(failure, "raised", FALSE)
                ELSE IF outcome = "articles" THEN [made EXCEPT !.at = "store"]
                ELSE NextTicker(made, "returned_empty", FALSE)
    /\ UNCHANGED <<engine, risk_positions>>

\* line 91: the range is exhausted and fetch_news falls off its end
FetchExhausted ==
    /\ call.op = "collect_and_store"
    /\ call.at = "fetch"
    /\ call.attempt >= call.max_retries
    /\ call' = NextTicker(call, "returned_none", FALSE)
    /\ UNCHANGED <<engine, risk_positions>>

\* line 110: time.sleep(self.retry_delay), then the next pass
RetrySleep ==
    /\ call.op = "collect_and_store"
    /\ call.at = "sleep"
    /\ call' = [call EXCEPT !.slept = Append(@, retry_delay),
                            !.attempt = @ + 1, !.at = "fetch"]
    /\ UNCHANGED <<engine, risk_positions>>

\* lines 167-171: store_news_data, whose exception collect_and_store catches
StoreNews ==
    /\ call.op = "collect_and_store"
    /\ call.at = "store"
    /\ \E ok \in BOOLEAN : call' = NextTicker(call, "returned_articles", ok)
    /\ UNCHANGED <<engine, risk_positions>>

NextNews ==
    \/ CollectAndStore
    \/ FetchAttempt
    \/ FetchExhausted
    \/ RetrySleep
    \/ StoreNews

SpecNews == InitRisk /\ [][NextNews]_vars

\* ---------------------------------------------------------------------------
\* TradingEngine.start: the trading thread and the monitoring thread on the
\* risk manager's position map.  call holds the position of each thread in
\* its code, the accepted sell orders counted per symbol since the symbol's
\* position was added, and whether an order was placed for a position that
\* was no longer in the map.

\* what broker.get_latest_price reports to the threads: nothing, the entry
\* price, a price below the stop-loss threshold
ThreadPrices == {Zero, I(100), I(90)}

ThreadPortfolioValue == I(10000)

\* lines 64-85: start() has started the threads
ThreadsStart ==
    /\ pc = "risk"
    /\ call = NoCall
    /\ call' = [op |-> "threads",
                trading |-> [pc |-> "idle", symbol |-> ""],
                monitoring |-> [pc |-> "idle", symbol |-> "", keys |-> <<>>],
                sells |-> [s \in TradedSymbols |-> 0],
                stale |-> FALSE]
    /\ UNCHANGED <<engine, risk_positions>>

\* _execute_sell_order returns to the thread that called it
SellReturn(c, th) ==
    IF th = "trading" THEN [c EXCEPT !.trading.pc = "idle"]
    ELSE [c EXCEPT !.monitoring.pc = "next", !.monitoring.keys = Tail(@)]

\* lines 233-259 in the trading thread, for one symbol of the signals: the
\* gate, the price, then the buy order or the entry into _execute_sell_order
TradingSignal ==
    /\ call.op = "threads"
    /\ call.trading.pc = "idle"
    /\ \E symbol \in TradedSymbols, primary_signal \in {"BUY", "SELL"},
          current_price \in {Zero, I(100)}, order_id \in BOOLEAN :
          IF \/ ~should_trade(risk_positions, symbol, primary_signal,
                              ThreadPortfolioValue, Zero)
             \/ ~Truthy(current_price)
          THEN UNCHANGED <<risk_positions, call>>
          ELSE IF primary_signal = "BUY"
          THEN LET done == _execute_buy_order(risk_positions, symbol, current_price,
                                              ThreadPortfolioValue, DefaultVolatility,
                                              order_id)
               IN  /\ risk_positions' = done.positions
                   /\ call' = IF done.order = NoOrder THEN call
                              ELSE [call EXCEPT !.sells[symbol] = 0]
          ELSE /\ call' = [call EXCEPT !.trading = [pc |-> "check", symbol |-> symbol]]
               /\ UNCHANGED risk_positions
    /\ UNCHANGED engine

\* lines 171-175 in the monitoring thread: _update_risk_metrics, then the
\* list of the keys of the position map that _check_position_exits walks
MonitorScan ==
    /\ call.op = "threads"
    /\ call.monitoring.pc = "idle"
    /\ \E price \in [TradedSymbols -> {Zero, I(100)}] :
          /\ risk_positions' = MarkAll(risk_positions, price)
          /\ call' = [call EXCEPT !.monitoring.pc = "next",
                                  !.monitoring.keys = Keys(risk_positions')]
    /\ UNCHANGED engine

\* lines 365-376: one pass of the loop of _check_position_exits
MonitorNext ==
    /\ call.op = "threads"
    /\ call.monitoring.pc = "next"
    /\ IF call.monitoring.keys = <<>>
       THEN call' = [call EXCEPT !.monitoring.pc = "idle"]
       ELSE \E current_price \in ThreadPrices :
              LET symbol == Head(call.monitoring.keys)
              IN  IF /\ Truthy(current_price)
                     /\ check_stop_loss_take_profit(risk_positions, symbol,
                                                    current_price).exit
                  THEN call' = [call EXCEPT !.monitoring.pc = "check",
                                            !.monitoring.symbol = symbol]
                  ELSE call' = [call EXCEPT !.monitoring.keys = Tail(@)]
    /\ UNCHANGED <<engine, risk_positions>>

\* line 301: the test that the symbol has a position
SellCheck ==
    /\ call.op = "threads"
    /\ \E th \in {"trading", "monitoring"} :
          /\ call[th].pc = "check"
          /\ call' = IF RiskHas(risk_positions, call[th].symbol)
                     THEN [call EXCEPT ![th].pc = "read"]
                     ELSE SellReturn(call, th)
    /\ UNCHANGED <<engine, risk_positions>>

\* line 304: the position is read from the map; a KeyError is caught at
\* line 322
SellRead ==
    /\ call.op = "threads"
    /\ \E th \in {"trading", "monitoring"} :
          /\ call[th].pc = "read"
          /\ call' = IF RiskHas(risk_positions, call[th].symbol)
                     THEN [call EXCEPT ![th].pc = "place"]
                     ELSE SellReturn(call, th)
    /\ UNCHANGED <<engine, risk_positions>>

\* lines 307-316: the sell order is placed with the broker
SellPlace ==
    /\ call.op = "threads"
    /\ \E th \in {"trading", "monitoring"}, order_id \in BOOLEAN :
          /\ call[th].pc = "place"
          /\ call' = IF order_id
                     THEN [call EXCEPT ![th].pc = "remove",
                                       !.sells[call[th].symbol] = @ + 1,
                                       !.stale = @ \/ ~RiskHas(risk_positions,
                                                               call[th].symbol)]
                     ELSE SellReturn(call, th)
    /\ UNCHANGED <<engine, risk_positions>>

\* line 318: remove_position
SellRemove ==
    /\ call.op = "threads"
    /\ \E th \in {"trading", "monitoring"} :
          /\ call[th].pc = "remove"
          /\ risk_positions' = remove_position(risk_positions, call[th].symbol)
          /\ call' = SellReturn(call, th)
    /\ UNCHANGED engine

NextThreads ==
    \/ ThreadsStart
    \/ TradingSignal
    \/ MonitorScan
    \/ MonitorNext
    \/ SellCheck
    \/ SellRead
    \/ SellPlace
    \/ SellRemove

SpecThreads == InitRisk /\ [][NextThreads]_vars

(***************************************************************************)
(* BacktestingEngine: one day of _execute_trades over eleven symbols       *)
(* The ledger is the engine's own; the gate reads RiskManager.positions,   *)
(* which the backtest never writes (no add_position in backtesting.py).    *)
(***************************************************************************)
\* the commission rate of these runs: cash after a buy of a tenth is 4/5
WideCommission == I(1)

InitWide ==
    /\ pc = "wide_signals"
    /\ initial_capital = I(100000)
    /\ start_date = FirstDay
    /\ end_date = FirstDay
    /\ commission = WideCommission
    /\ current_date = FirstDay
    /\ last_equity_update = NoDate
    /\ current_capital = I(100000)
    /\ positions = <<>>
    /\ trades = <<>>
    /\ equity_curve = <<>>
    /\ risk_positions = <<>>
    /\ signals = <<>>
    /\ close = [s \in Symbols |-> 0]
    /\ nbars = [s \in Symbols |-> 0]
    /\ bar_today = [s \in Symbols |-> FALSE]
    /\ gate_consulted = FALSE
    /\ attempt = NoAttempt
    /\ visited = <<>>
    /\ result = NoResult
    /\ call = NoCall

\* _generate_signals: a BUY or a HOLD for each of the eleven symbols
WideGenerateSignals ==
    /\ pc = "wide_signals"
    /\ \E sig \in [1..Len(RiskSymbolList) -> {"BUY", "HOLD"}] :
          signals' = [i \in 1..Len(RiskSymbolList) |->
                         [symbol |-> RiskSymbolList[i], signal |-> sig[i]]]
    /\ pc' = "wide_trades"
    /\ UNCHANGED <<args, current_date, last_equity_update, ledger, equity_curve,
                   risk, market, observed, visited, result>>

\* lines 199-219: one iteration of the loop of _execute_trades; the price is
\* found and the closes of the symbol are flat, so its volatility is 0
WideExecuteTrades ==
    /\ pc = "wide_trades"
    /\ signals # <<>>
    /\ LET symbol == signals[1].symbol
           signal == signals[1].signal
       IN  IF signal = "BUY" /\ ~Has(positions, symbol)
           THEN /\ gate_consulted' = TRUE
                /\ IF should_trade(risk_positions, symbol, signal, current_capital, Zero)
                   THEN SetLedger(_execute_buy(Ledger, symbol, BasePrice, current_date,
                                               commission, Zero))
                   ELSE UNCHANGED ledger
           ELSE IF signal = "SELL" /\ Has(positions, symbol)
           THEN /\ gate_consulted' = FALSE
                /\ SetLedger(_execute_sell(Ledger, symbol, BasePrice, current_date,
                                           commission))
           ELSE UNCHANGED <<ledger, gate_consulted>>
    /\ signals' = Tail(signals)
    /\ UNCHANGED <<pc, args, current_date, last_equity_update, equity_curve,
                   risk, market, attempt, visited, result>>

NextWide ==
    \/ WideGenerateSignals
    \/ WideExecuteTrades

SpecWide == InitWide /\ [][NextWide]_vars

(***************************************************************************)
(* run_backtest from a Thursday to the Monday after: three trading days    *)
(* around a weekend, so a symbol can be bought, sold and bought again.     *)
(* call holds the strategy argument of the run.                            *)
(***************************************************************************)
\* the strategy argument of these runs: the default, and another trader
RunStrategies == {"multifactor", "momentum"}

InitOverWeekend ==
    /\ pc = "idle"
    /\ initial_capital = I(100000)
    /\ start_date = FirstDay - 1
    /\ end_date = FirstDay + 3
    /\ commission = Zero
    /\ current_date = NoDate
    /\ last_equity_update = NoDate
    /\ current_capital = initial_capital
    /\ positions = <<>>
    /\ trades = <<>>
    /\ equity_curve = <<>>
    /\ risk_positions = <<>>
    /\ signals = <<>>
    /\ \E hist \in BOOLEAN :
          /\ close = [s \in Symbols |-> IF hist THEN BasePrice ELSE 0]
          /\ nbars = [s \in Symbols |-> IF hist THEN HistoryBars ELSE 0]
    /\ bar_today = [s \in Symbols |-> FALSE]
    /\ gate_consulted = FALSE
    /\ attempt = NoAttempt
    /\ visited = <<>>
    /\ result = NoResult
    /\ \E strategy \in RunStrategies :
          call = [op |-> "run_backtest", strategy |-> strategy]

SpecOverWeekend == InitOverWeekend /\ [][Next]_vars

(***************************************************************************)
(* TradingEngine: the running flag, start(), stop() and the worker loops.  *)
(* call holds the engine: its trading_enabled and running fields, the      *)
(* threads start() has created with the position of each in its loop,      *)
(* the orders the broker has accepted (their number, and the quantity       *)
(* bought less the quantity sold), and whether one was accepted while      *)
(* running was False after a stop().  The body of a loop is one step here; *)
(* the steps inside _execute_sell_order are those of the section above.    *)
(***************************************************************************)
\* calls of start() that create threads
MaxStarts == 2

\* orders the broker accepts before it refuses every further one
MaxOrders == 3

EngineSymbol == RiskSymbolList[1]

Workers == <<"_data_collection_loop", "_trading_loop", "_monitoring_loop">>

\* lines 27-32: the constructor; config.get('enabled', False)
EngineConstruct ==
    /\ pc = "risk"
    /\ call = NoCall
    /\ \E enabled \in BOOLEAN :
          call' = [op |-> "engine", trading_enabled |-> enabled, running |-> FALSE,
                   threads |-> <<>>, stopped |-> FALSE, orders |-> 0,
                   net |-> Zero, late |-> FALSE]
    /\ UNCHANGED <<engine, risk_positions>>

\* lines 64-85
EngineStart ==
    /\ call.op = "engine"
    /\ Len(call.threads) < Len(Workers) * MaxStarts
    /\ call' = IF call.running THEN call
               ELSE [call EXCEPT !.running = TRUE,
                                 !.stopped = FALSE,
                                 !.threads = @ \o [i \in 1..Len(Workers) |->
                                     [target |-> Workers[i], pc |-> "while"]]]
    /\ UNCHANGED <<engine, risk_positions>>

\* lines 87-100, with close_positions_on_stop left at False
EngineStop ==
    /\ call.op = "engine"
    /\ call' = IF ~call.running THEN call
               ELSE [call EXCEPT !.running = FALSE, !.stopped = TRUE]
    /\ UNCHANGED <<engine, risk_positions>>

\* lines 104, 138, 171: 'while self.running' of a worker
LoopTest ==
    /\ call.op = "engine"
    /\ \E i \in 1..Len(call.threads) :
          /\ call.threads[i].pc = "while"
          /\ call' = [call EXCEPT !.threads[i].pc =
                         IF call.running THEN "body" ELSE "exited"]
    /\ UNCHANGED <<engine, risk_positions>>

\* the engine after a pass of the body of thread i in which the broker
\* accepted the order
AfterBody(i, order) ==
    [call EXCEPT !.threads[i].pc = "while",
                 !.orders = IF order # NoOrder THEN @ + 1 ELSE @,
                 !.net = IF order = NoOrder THEN @
                         ELSE IF order.side = "buy" THEN RAdd(@, order.quantity)
                         ELSE RSub(@, order.quantity),
                 !.late = @ \/ (order # NoOrder /\ call.stopped /\ ~call.running)]

\* what broker.place_order can answer: an order id, or none
BrokerAnswers == IF call.orders < MaxOrders THEN BOOLEAN ELSE {FALSE}

\* lines 105-134: a pass of the data collection loop, and its sleep
DataBody ==
    /\ call.op = "engine"
    /\ \E i \in 1..Len(call.threads) :
          /\ call.threads[i] = [target |-> "_data_collection_loop", pc |-> "body"]
          /\ call' = AfterBody(i, NoOrder)
    /\ UNCHANGED <<engine, risk_positions>>

\* lines 139-167: a pass of the trading loop, and its sleep; the market is
\* open or closed, and _execute_trades handles the signal of one symbol
TradingBody ==
    /\ call.op = "engine"
    /\ \E i \in 1..Len(call.threads), open \in BOOLEAN,
          primary_signal \in {"BUY", "SELL", "HOLD"},
          current_price \in {Zero, I(100)}, order_id \in BrokerAnswers :
          /\ call.threads[i] = [target |-> "_trading_loop", pc |-> "body"]
          /\ \E done \in {IF open
                          THEN _execute_trades(risk_positions, EngineSymbol,
                                   primary_signal, ThreadPortfolioValue,
                                   current_price, DefaultVolatility, order_id)
                          ELSE [positions |-> risk_positions, order |-> NoOrder]} :
                /\ risk_positions' = done.positions
                /\ call' = AfterBody(i, done.order)
    /\ UNCHANGED engine

\* lines 172-186: a pass of the monitoring loop, and its sleep:
\* _update_risk_metrics, then _check_position_exits
MonitoringBody ==
    /\ call.op = "engine"
    /\ \E i \in 1..Len(call.threads), mark \in {Zero, I(100)},
          current_price \in ThreadPrices, order_id \in BrokerAnswers :
          /\ call.threads[i] = [target |-> "_monitoring_loop", pc |-> "body"]
          /\ \E marked \in {IF Truthy(mark)
                            THEN update_position(risk_positions, EngineSymbol, mark)
                            ELSE risk_positions} :
             \E done \in {IF /\ RiskHas(marked, EngineSymbol)
                             /\ Truthy(current_price)
                             /\ check_stop_loss_take_profit(marked, EngineSymbol,
                                                            current_price).exit
                          THEN _execute_sell_order(marked, EngineSymbol,
                                                   current_price, order_id)
                          ELSE [positions |-> marked, order |-> NoOrder]} :
                /\ risk_positions' = done.positions
                /\ call' = AfterBody(i, done.order)
    /\ UNCHANGED engine

NextEngine ==
    \/ EngineConstruct
    \/ EngineStart
    \/ EngineStop
    \/ LoopTest
    \/ DataBody
    \/ TradingBody
    \/ MonitoringBody

SpecEngine == InitRisk /\ [][NextEngine]_vars

(***************************************************************************)
(* ExecutionSimulator (src/trading_system/traders/base.py).  call holds    *)
(* the simulator: positions (ticker -> quantity, a dict), trade_history,   *)
(* the arguments and the return value of the last call of execute, and     *)
(* whether every call so far had a positive quantity.  The timestamp of a  *)
(* history record is the clock's and is left out.                          *)
(***************************************************************************)
\* history records after which no further call is made
MaxHistory == 3

SimTickers == {"A", "B"}
SimSignals == {"BUY", "SELL", "HOLD"}
SimQuantities == {I(1), I(2), RNeg(I(1))}

\* self.positions.get(ticker, 0)
SimGet(held, ticker) == IF Has(held, ticker) THEN Get(held, ticker).quantity ELSE Zero

\* execute without the test of line 36
execute_unchecked(sim, signal, ticker, quantity) ==
    LET current_position == SimGet(sim.positions, ticker)
        record == [ticker |-> ticker, signal |-> signal, quantity |-> quantity]
    IN  IF signal = "BUY"
        THEN [positions |-> Put(sim.positions, [symbol |-> ticker,
                                   quantity |-> RAdd(current_position, quantity)]),
              trade_history |-> Append(sim.trade_history, record),
              returned |-> TRUE]
        ELSE IF signal = "SELL"
        THEN [positions |-> Put(sim.positions, [symbol |-> ticker,
                                   quantity |-> RSub(current_position, quantity)]),
              trade_history |-> Append(sim.trade_history, record),
              returned |-> TRUE]
        ELSE [positions |-> sim.positions,
              trade_history |-> Append(sim.trade_history, record),
              returned |-> TRUE]

\* lines 19-54
execute(sim, signal, ticker, quantity) ==
    LET current_position == SimGet(sim.positions, ticker)
        record == [ticker |-> ticker, signal |-> signal, quantity |-> quantity]
    IN  IF signal = "BUY"
        THEN [positions |-> Put(sim.positions, [symbol |-> ticker,
                                   quantity |-> RAdd(current_position, quantity)]),
              trade_history |-> Append(sim.trade_history, record),
              returned |-> TRUE]
        ELSE IF signal = "SELL"
        THEN IF RGe(current_position, quantity)
             THEN [positions |-> Put(sim.positions, [symbol |-> ticker,
                                        quantity |-> RSub(current_position, quantity)]),
                   trade_history |-> Append(sim.trade_history, record),
                   returned |-> TRUE]
             ELSE [positions |-> sim.positions,
                   trade_history |-> sim.trade_history,
                   returned |-> FALSE]
        ELSE [positions |-> sim.positions,
              trade_history |-> Append(sim.trade_history, record),
              returned |-> TRUE]

\* lines 15-17: the constructor
SimConstruct ==
    /\ pc = "risk"
    /\ call = NoCall
    /\ call' = [op |-> "simulator", positions |-> <<>>, trade_history |-> <<>>,
                positive |-> TRUE, last |-> [signal |-> "none"]]
    /\ UNCHANGED <<engine, risk_positions>>

\* a call of execute, as Trader.run makes it at line 198 (quantity 1.0) or
\* with a quantity of the caller's
SimExecute ==
    /\ call.op = "simulator"
    /\ Len(call.trade_history) < MaxHistory
    /\ \E signal \in SimSignals, ticker \in SimTickers, quantity \in SimQuantities :
          \E done \in {execute(call, signal, ticker, quantity)} :
             call' = [op |-> "simulator", positions |-> done.positions,
                      trade_history |-> done.trade_history,
                      positive |-> call.positive /\ RGt(quantity, Zero),
                      last |-> [signal |-> signal, ticker |-> ticker,
                                quantity |-> quantity, returned |-> done.returned]]
    /\ UNCHANGED <<engine, risk_positions>>

NextSimulator ==
    \/ SimConstruct
    \/ SimExecute

SpecSimulator == InitRisk /\ [][NextSimulator]_vars

\* strategy arguments of run_backtest: the six documented ids and a name
\* that is none of them
StrategyIds == Strategies \cup {"other"}

\* lines 165-169: the branch of _generate_signals a strategy takes
StrategyPath(strategy) ==
    IF strategy = "multifactor" THEN "multifactor"
    ELSE IF strategy \in {TraderNames[i] : i \in 1..Len(TraderNames)} THEN "trader"
    ELSE "ensemble"

\* lines 164-193: the signal of a symbol that has bars; outcome[i] is what
\* the i-th trader's generate_signal does when it is called, and an
\* exception outside the ensemble branch is caught at line 191
StrategySignal(strategy, outcome) ==
    IF StrategyPath(strategy) = "ensemble" THEN EnsembleSignal(outcome)
    ELSE LET i == CHOOSE k \in 1..Len(TraderNames) : TraderNames[k] = strategy
         IN  IF outcome[i] = "RAISE" THEN "HOLD" ELSE outcome[i]

CallStrategySignal ==
    /\ pc = "risk"
    /\ call = NoCall
    /\ \E strategy \in StrategyIds, outcome \in [1..Len(TraderNames) -> TraderOutcomes] :
          call' = [op |-> "strategy_signal", strategy |-> strategy,
                   outcome |-> outcome, path |-> StrategyPath(strategy),
                   returned |-> StrategySignal(strategy, outcome)]
    /\ UNCHANGED <<engine, risk_positions>>

NextCalls ==
    \/ CallDetermineRiskLevel
    \/ CallCalculatePositionSize
    \/ CallExecuteSell
    \/ CallCalculateResults
    \/ CallEnsembleSignal
    \/ CallMultiFactor
    \/ CallGenerateSignal
    \/ CallGenerateSignals
    \/ CallStrategySignal

SpecCalls == InitRisk /\ [][NextCalls]_vars

(***************************************************************************)
(* Properties                                                              *)
(***************************************************************************)
\* float equality: false when either side is NaN
REq(a, b) == ~IsNaN(a) /\ ~IsNaN(b) /\ a = b

One == I(1)

\* the trades a step appended
NewTrades == SubSeq(trades', Len(trades) + 1, Len(trades'))

Unrealized(dict) ==
    RSum([i \in 1..Len(dict) |->
             RMul(RSub(I(dict[i].current_price), I(dict[i].entry_price)),
                  dict[i].quantity)])

Weekdays(a, b) == {d \in a..b : ~IsWeekend(d)}

DateRange(a, b) == [i \in 1..(b - a + 1) |-> a + i - 1]

HeadIs(signal) == pc = "trades" /\ signals # <<>> /\ signals[1].signal = signal

\* C1: with a commission rate in [0,1), the ledger's cash is never negative
\* in any state of run_backtest.
C1_CashNeverNegative ==
    (RGe(commission, Zero) /\ RLt(commission, One)) => ~RLt(current_capital, Zero)

C1_Witness ==
    /\ pc = "done"
    /\ RLt(commission, One)
    /\ Len(trades) >= 4
    /\ \E i \in 1..Len(trades) : trades[i].side = "sell" /\ trades[i].timestamp < end_date + 1
    /\ \E i \in 1..Len(trades) : trades[i].side = "buy"
    /\ RGt(current_capital, Zero)

\* C2: a step in which _execute_buy computed a non-positive position size, or
\* a notional plus commission above the cash it started from, leaves cash,
\* the position map and the trade log unchanged.
C2_RejectedBuyIsNoOp ==
    [][(/\ attempt'.made
        /\ \/ RLe(attempt'.quote.position_size, Zero)
           \/ RGt(RAdd(attempt'.quote.trade_value, attempt'.quote.trade_commission),
                  attempt'.cash))
       => UNCHANGED ledger]_vars

C2_Witness ==
    /\ attempt.made
    /\ RGt(attempt.quote.position_size, Zero)
    /\ RGt(RAdd(attempt.quote.trade_value, attempt.quote.trade_commission), attempt.cash)
    /\ current_capital = attempt.cash
    /\ positions = <<>>
    /\ trades = <<>>

\* C3: every step conserves equity: cash plus the marked value of the open
\* positions after the step equals the equity before it plus the realized
\* pnl of the trades of the step minus their commissions plus the change of
\* the unrealized pnl; a step that is one buy, or one sell at the position's
\* mark, changes equity by exactly minus the commission of the trade.
C3_EquityConservation ==
    [][LET before == PortfolioValue(current_capital, positions)
           after == PortfolioValue(current_capital', positions')
           new == NewTrades
           realized == RSum([i \in 1..Len(new) |-> new[i].pnl])
           fees == RSum([i \in 1..Len(new) |-> new[i].commission])
           delta == RSub(Unrealized(positions'), Unrealized(positions))
       IN  /\ REq(after, RAdd(RSub(RAdd(before, realized), fees), delta))
           /\ (/\ Len(new) = 1
               /\ \/ new[1].side = "buy"
                  \/ /\ new[1].side = "sell"
                     /\ Get(positions, new[1].symbol).current_price = new[1].price)
              => REq(after, RSub(before, new[1].commission))]_vars

\* C4: the position map never holds two positions of one symbol, and a step
\* of _execute_trades on a BUY signal for a symbol that has an open position
\* leaves cash, the position map and the trade log unchanged.
C4_OnePositionPerSymbol ==
    /\ [](\A i, j \in 1..Len(positions) :
             positions[i].symbol = positions[j].symbol => i = j)
    /\ [][(HeadIs("BUY") /\ Has(positions, signals[1].symbol))
          => UNCHANGED ledger]_vars

C4_Witness ==
    /\ HeadIs("BUY")
    /\ Has(positions, signals[1].symbol)
    /\ close[signals[1].symbol] # 0
    /\ RGt(current_capital, Zero)

\* C5: when run_backtest has returned, the position map is empty.
C5_AllClosedAtReturn ==
    pc = "done" => positions = <<>> /\ result.positions = <<>>

\* what is left of the run: the days the clock has yet to pass and, within a
\* day, the calls of the loop body yet to be made
Rank ==
    LET n == Len(SymbolList)
        K == n + 8
        Left == IF current_date > end_date THEN 0 ELSE end_date + 1 - current_date
        Span == IF start_date > end_date THEN 0 ELSE end_date + 1 - start_date
    IN  CASE pc = "idle" -> K * Span + 3
          [] pc = "loop" -> K * Left + 2
          [] pc = "signals" -> K * Left + 1
          [] pc = "trades" -> K * Left - (n - Len(signals))
          [] pc = "equity" -> K * Left - n - 1
          [] pc = "results" -> 1
          [] pc = "done" -> 0
          [] pc = "raised" -> 0

\* C6: run_backtest returns for every date range, also when calls of the
\* loop body raise.  Until it has returned a step is always possible (the
\* next call of the body raising is one wherever the body is running) and
\* every step decreases a measure that is zero only at the return, so under
\* the fairness of SpecErr the return is reached; at the return the loop body
\* has been entered once for each calendar day from start_date to end_date,
\* in order, and the clock only ever moved one day on, back into the loop.
C6_RunsToCompletion ==
    /\ [](\/ pc = "done"
          \/ pc = "results"    \* where CalculateResults has no other guard
          \/ ENABLED (\/ StartBacktest \/ SkipWeekend \/ DayError
                      \/ CloseAllPositions))
    /\ [](Rank >= 0 /\ (Rank = 0 <=> pc = "done"))
    /\ [][Rank' < Rank]_vars
    /\ [](pc = "done" => visited = DateRange(start_date, end_date) /\ result.returned)
    /\ [][current_date' # current_date /\ pc # "idle"
          => current_date' = current_date + 1 /\ pc' = "loop"]_vars

C6_Witness ==
    /\ pc = "done"
    /\ result.returned
    /\ \E i \in 1..Len(visited) :
          /\ ~IsWeekend(visited[i])
          /\ \A k \in 1..Len(equity_curve) : equity_curve[k].date # visited[i]
    /\ trades # <<>>

\* C7: the equity curve holds exactly one snapshot for each weekday of the
\* date range and none for a weekend day, in strictly increasing date order,
\* and the equity of each snapshot equals its cash plus its positions value.
C7_OneSnapshotPerTradingDay ==
    /\ \A i \in 1..Len(equity_curve) :
          /\ ~IsWeekend(equity_curve[i].date)
          /\ i < Len(equity_curve) => equity_curve[i].date < equity_curve[i + 1].date
          /\ REq(equity_curve[i].equity,
                 RAdd(equity_curve[i].capital, equity_curve[i].positions_value))
    /\ pc \in {"results", "done"}
          => {equity_curve[i].date : i \in 1..Len(equity_curve)}
                 = Weekdays(start_date, end_date)

\* C8: _execute_trades executes no trade for a symbol that has no bar dated
\* the current day.
C8_NoTradeWithoutTodaysBar ==
    [][(pc = "trades" /\ signals # <<>> /\ trades' # trades)
       => bar_today[signals[1].symbol]]_vars

\* C9: after the exit check of a day no open position has its mark at or
\* beyond a threshold; a position whose mark is at or below entry x 0.95
\* when the exit check runs is removed by it with a sell Trade of negative
\* realized pnl, and one whose mark is at or above entry x 1.15 is removed
\* with a sell Trade.
C9_ExitOnBreach ==
    /\ [](pc \in {"equity", "loop", "results", "done"}
             => \A i \in 1..Len(positions) :
                   ~StopLossHit(positions[i]) /\ ~TakeProfitHit(positions[i]))
    /\ [][(pc = "trades" /\ signals = <<>>)
          => \A i \in 1..Len(positions) :
               LET p == positions[i]
                   sold == {k \in 1..Len(NewTrades) :
                               /\ NewTrades[k].symbol = p.symbol
                               /\ NewTrades[k].side = "sell"}
               IN  /\ StopLossHit(p)
                        => /\ ~Has(positions', p.symbol)
                           /\ Cardinality(sold) = 1
                           /\ \A k \in sold : RLt(NewTrades[k].pnl, Zero)
                   /\ TakeProfitHit(p)
                        => /\ ~Has(positions', p.symbol)
                           /\ Cardinality(sold) = 1]_vars

\* C10: no step that appends a sell Trade (a SELL signal, a stop-loss or
\* take-profit exit, the final force-close) calls should_trade.
C10_ExitsNotGated ==
    [][(Len(NewTrades) > 0 /\ \E k \in 1..Len(NewTrades) : NewTrades[k].side = "sell")
       => ~gate_consulted']_vars

C10_Witness ==
    /\ pc = "trades"
    /\ trades # <<>>
    /\ trades[Len(trades)].side = "sell"
    /\ trades[Len(trades)].timestamp = current_date
    /\ ~gate_consulted

\* the risk level the last call of should_trade computed
AskedLevel ==
    calculate_portfolio_risk(risk_positions, call.portfolio_value,
                             call.correlation).risk_level

AskedEntry ==
    /\ call.op = "should_trade"
    /\ call.signal = "BUY"
    /\ ~RiskHas(risk_positions, call.symbol)

\* C11: should_trade returns false for a BUY on a symbol without a tracked
\* position whenever max_positions or more positions are tracked, or the
\* risk level it computes is HIGH, or it is CRITICAL.
C11_GateRejectsEntries ==
    (/\ AskedEntry
     /\ \/ Len(risk_positions) >= max_positions
        \/ AskedLevel = "HIGH"
        \/ AskedLevel = "CRITICAL")
    => ~call.approved

C11_Witness ==
    /\ AskedEntry
    /\ Len(risk_positions) < max_positions
    /\ AskedLevel = "HIGH"
    /\ call.correlation = Zero
    /\ ~call.approved

DailyLossLimit(daily_pnl, portfolio_value) ==
    RLt(daily_pnl, RMul(RNeg(portfolio_value), max_daily_loss))

\* C12: the gate never rejects an exit on account of the risk level: when the
\* production engine handles a SELL signal for a symbol that has an open
\* position, at HIGH or CRITICAL portfolio risk, with the daily loss within
\* its limit, a price and a broker that accepts the order, the sell order is
\* placed
C12_ExitsPassTheGate ==
    (/\ call.op = "_execute_trades"
     /\ call.signal = "SELL"
     /\ call.held
     /\ call.risk_level \in {"HIGH", "CRITICAL"}
     /\ ~DailyLossLimit(call.daily_pnl, call.portfolio_value)
     /\ Truthy(call.current_price)
     /\ call.order_id)
    => call.order.side = "sell"

\* the square of std / mean of a list of position values with a positive mean
VolSq(values) ==
    LET k == Len(values)
        mean == RDiv(RSum(values), I(k))
        sq == [i \in 1..k |-> RMul(RSub(values[i], mean), RSub(values[i], mean))]
    IN  RDiv(RDiv(RSum(sq), I(k)), RMul(mean, mean))

\* the score and the mapping as the specification words them
ClaimedScore(daily_return, drawdown, values, position_count) ==
    (IF RGt(RAbs(daily_return), max_daily_loss) THEN 3
     ELSE IF RGt(RMul(I(2), RAbs(daily_return)), max_daily_loss) THEN 1 ELSE 0)
    + (IF RGt(RAbs(drawdown), max_drawdown) THEN 3
       ELSE IF RGt(RMul(I(2), RAbs(drawdown)), max_drawdown) THEN 1 ELSE 0)
    + (IF RGt(VolSq(values), R(25, 10000)) THEN 2
       ELSE IF RGt(VolSq(values), R(9, 10000)) THEN 1 ELSE 0)
    + (IF position_count > max_positions THEN 2
       ELSE IF 5 * position_count > 4 * max_positions THEN 1 ELSE 0)

ClaimedLevel(score) ==
    CASE score \in 0..1 -> "LOW"
      [] score \in 2..3 -> "MEDIUM"
      [] score \in 4..5 -> "HIGH"
      [] OTHER -> "CRITICAL"

LevelRank(level) ==
    CASE level = "LOW" -> 0 [] level = "MEDIUM" -> 1
      [] level = "HIGH" -> 2 [] level = "CRITICAL" -> 3

ClaimedSize(portfolio_value, volatility) ==
    LET damp == RDiv(One, RAdd(One, RMul(I(10), volatility)))
    IN  PyMin3(RMul(max_position_size, portfolio_value),
               RMul(RMul(kelly_fraction, portfolio_value), damp),
               RMul(R(10, 100), portfolio_value))

\* C14: calculate_position_size returns min(max_position_size x
\* portfolio_value, f x portfolio_value x damp, 10% x portfolio_value) with
\* damp = 1 / (1 + 10 x volatility) on the Kelly term only, and never more
\* than 10% of the portfolio value
C14_PositionSizeFormula ==
    call.op = "calculate_position_size" =>
        /\ REq(call.returned, ClaimedSize(call.portfolio_value, call.volatility))
        /\ RLe(call.returned, RMul(R(10, 100), call.portfolio_value))

\* C15: _execute_sell for a symbol without an open position changes neither
\* the cash, nor the position map, nor the trade log
C15_SellWithoutPositionIsNoOp ==
    (call.op = "_execute_sell" /\ ~Has(call.before.positions, call.symbol))
    => call.after = call.before

C15_Witness ==
    /\ call.op = "_execute_sell"
    /\ ~Has(call.before.positions, call.symbol)
    /\ call.before.positions # <<>>
    /\ call.before.trades # <<>>
    /\ call.after = call.before

\* C16: _execute_sell for a symbol with an open long position credits the
\* cash by quantity x price less the commission on it, appends one closing
\* Trade for the whole quantity carrying pnl (price - entry) x quantity and
\* that commission, and removes the Position and no other
C16_SellClosesWholePosition ==
    (call.op = "_execute_sell" /\ Has(call.before.positions, call.symbol))
    => LET position == Get(call.before.positions, call.symbol)
           notional == RMul(position.quantity, I(call.price))
           fee == RMul(notional, call.rate)
           sold == call.after.trades[Len(call.after.trades)]
       IN  /\ position.side = "long"
           /\ call.after.cash = RAdd(call.before.cash, RSub(notional, fee))
           /\ Len(call.after.trades) = Len(call.before.trades) + 1
           /\ SubSeq(call.after.trades, 1, Len(call.before.trades)) = call.before.trades
           /\ sold.symbol = call.symbol /\ sold.side = "sell"
           /\ sold.quantity = position.quantity
           /\ sold.price = call.price
           /\ sold.pnl = RMul(I(call.price - position.entry_price), position.quantity)
           /\ sold.commission = fee
           /\ ~Has(call.after.positions, call.symbol)
           /\ call.after.positions
                = SelectSeq(call.before.positions, LAMBDA p : p.symbol # call.symbol)

\* a losing sale of one of two positions, at a commission
C16_Witness ==
    /\ call.op = "_execute_sell"
    /\ Len(call.before.positions) = 2
    /\ Len(call.after.positions) = 1
    /\ call.price < BasePrice
    /\ call.after.trades[Len(call.after.trades)].pnl = I(0 - 50)
    /\ RGt(call.after.cash, call.before.cash)

\* C17: every step of a run keeps the Trades recorded so far, unchanged and
\* in their order, as a prefix of the trade log, and every buy Trade in the
\* log carries pnl 0
C17_TradeLogAppendOnly ==
    /\ [][/\ Len(trades') >= Len(trades)
          /\ SubSeq(trades', 1, Len(trades)) = trades]_vars
    /\ [](\A k \in 1..Len(trades) : trades[k].side = "buy" => trades[k].pnl = Zero)
    /\ [](result.returned => result.trades = trades)

\* a log that has grown over a buy at a commission, its sale and a buy again
C17_Witness ==
    /\ Len(trades) >= 3
    /\ trades[1].side = "buy" /\ RGt(trades[1].commission, Zero)
    /\ trades[2].side = "sell" /\ trades[2].pnl # Zero
    /\ trades[3].side = "buy"
    /\ pc = "done"

\* the closing Trades of a log and their realized pnl
Closes(log) == SelectSeq(log, LAMBDA t : t.side = "sell")
ClosePnls(log) == [k \in 1..Len(Closes(log)) |-> Closes(log)[k].pnl]

\* C18: in the result returned, win_rate is the number of closing Trades
\* with positive pnl over the number of closing Trades, x 100 (opening
\* Trades are not counted), and avg_trade_pnl, best_trade and worst_trade
\* are the mean, largest and smallest pnl of those closing Trades
C18_WinRateOverClosedTrades ==
    pc = "done" =>
        LET pnls == ClosePnls(trades)
            wins == SelectSeq(pnls, LAMBDA x : RGt(x, Zero))
        IN  IF pnls = <<>>
            THEN /\ result.win_rate = Zero
                 /\ result.avg_trade_pnl = Zero
                 /\ result.best_trade = Zero
                 /\ result.worst_trade = Zero
            ELSE /\ result.win_rate = R(100 * Len(wins), Len(pnls))
                 /\ result.avg_trade_pnl = RDiv(RSum(pnls), I(Len(pnls)))
                 /\ result.best_trade = PyMax(Tail(pnls), pnls[1])
                 /\ result.worst_trade = PyMin(Tail(pnls), pnls[1])

Prefix(seq, k) == SubSeq(seq, 1, k)

\* C19: for every equity curve max_drawdown_pct lies in [0, 100] and the
\* value computed over a prefix of the curve is at most the value computed
\* over the whole curve
C19_DrawdownPctMonotone ==
    (call.op = "_calculate_results" /\ call.curve # <<>>) =>
        /\ RGe(call.returned.max_drawdown_pct, Zero)
        /\ RLe(call.returned.max_drawdown_pct, I(100))
        /\ \A k \in 1..Len(call.curve) :
              RLe(_calculate_max_drawdown(Prefix(call.curve, k)).max_drawdown_pct,
                  call.returned.max_drawdown_pct)

\* C20: sharpe_ratio is 0 whenever the daily returns have no deviation (all
\* the same, or fewer than two snapshots), and a constant equity curve with
\* no trades gives zero trades, final_capital = initial_capital, sharpe_ratio
\* 0 and max_drawdown 0
C20_SharpeZeroWithoutDeviation ==
    (call.op = "_calculate_results" /\ call.curve # <<>>) =>
        LET returns == DailyReturns(call.curve)
            flat == \A k \in 1..Len(call.curve) : call.curve[k].equity = call.curve[1].equity
        IN  /\ (\A k \in 1..Len(returns) : returns[k] = returns[1])
                => call.returned.sharpe_ratio = 0
            /\ (flat /\ call.log = <<>>)
                => /\ call.returned.total_trades = 0
                   /\ call.returned.final_capital = call.returned.initial_capital
                   /\ call.returned.final_capital = call.curve[1].equity
                   /\ call.returned.sharpe_ratio = 0
                   /\ call.returned.max_drawdown = Zero

\* a curve that doubles each day: the returns are all 1, their mean is not
\* 0, their deviation is
C20_Witness ==
    /\ call.op = "_calculate_results"
    /\ Len(call.curve) = 3
    /\ call.returned.daily_returns = <<One, One>>
    /\ call.returned.sharpe_ratio = 0

\* C21: when run_backtest ends with no equity snapshot recorded it has
\* returned, not raised, and the result is zero-valued: final_capital =
\* initial_capital, zero returns, zero trades, empty curve
C21_EmptyCurveGivesZeroResult ==
    (pc \in {"done", "raised"} /\ equity_curve = <<>>) =>
        /\ pc = "done"
        /\ result.returned
        /\ result.initial_capital = initial_capital
        /\ result.final_capital = initial_capital
        /\ result.total_return = Zero /\ result.total_return_pct = Zero
        /\ result.daily_returns = <<>>
        /\ result.sharpe_ratio = 0
        /\ result.max_drawdown = Zero /\ result.max_drawdown_pct = Zero
        /\ result.total_trades = 0 /\ result.profitable_trades = 0
        /\ result.win_rate = Zero /\ result.avg_trade_pnl = Zero
        /\ result.best_trade = Zero /\ result.worst_trade = Zero
        /\ result.trades = <<>> /\ result.equity_curve = <<>>
        /\ result.positions = <<>>

\* a returned run over weekend days only
C21_Witness ==
    /\ pc = "done"
    /\ equity_curve = <<>>
    /\ start_date < end_date
    /\ visited = DateRange(start_date, end_date)
    /\ \A d \in start_date..end_date : IsWeekend(d)
    /\ result.returned /\ result.final_capital = initial_capital

\* a sequence with two of its elements exchanged
Swapped(seq, i, j) ==
    [k \in 1..Len(seq) |-> IF k = i THEN seq[j] ELSE IF k = j THEN seq[i] ELSE seq[k]]

\* C22: the ensemble signal is BUY when more variants answered BUY than
\* SELL, SELL when more answered SELL than BUY, HOLD on a tie; a variant
\* that raises counts like one that answered HOLD, and exchanging the
\* outcomes of two variants does not change the signal
C22_EnsembleVote ==
    call.op = "ensemble" =>
        LET n == Len(call.outcome)
            buys == Cardinality({i \in 1..n : call.outcome[i] = "BUY"})
            sells == Cardinality({i \in 1..n : call.outcome[i] = "SELL"})
        IN  /\ buys > sells <=> call.returned = "BUY"
            /\ sells > buys <=> call.returned = "SELL"
            /\ buys = sells <=> call.returned = "HOLD"
            /\ \A i \in 1..n : \A j \in 1..n :
                  EnsembleSignal(Swapped(call.outcome, i, j)) = call.returned
            /\ \A i \in 1..n :
                  call.outcome[i] = "RAISE"
                  => EnsembleSignal([call.outcome EXCEPT ![i] = "HOLD"]) = call.returned

\* three BUY votes, one SELL vote and a variant that raised: BUY
C22_Witness ==
    /\ call.op = "ensemble"
    /\ Count(call.outcome, "BUY") = 3
    /\ Count(call.outcome, "SELL") = 1
    /\ Count(call.outcome, "RAISE") = 1
    /\ call.outcome[1] = "SELL"
    /\ call.returned = "BUY"

\* the opposite signal
Negated(signal) ==
    IF signal = "BUY" THEN "SELL" ELSE IF signal = "SELL" THEN "BUY" ELSE "HOLD"

\* ten times the weighted score of four sub-signals, in integers
TenfoldScore(momentum, mean_rev, fundamental, sentiment) ==
    LET v(s) == IF s = "BUY" THEN 1 ELSE IF s = "SELL" THEN -1 ELSE 0
    IN  2 * (v(momentum) + v(mean_rev)) + 3 * v(fundamental) + 3 * v(sentiment)

\* C23: the multi-factor signal is BUY exactly when 0.4 x average(momentum,
\* mean reversion) + 0.3 x fundamental + 0.3 x sentiment exceeds 0.3, SELL
\* exactly when it is below -0.3, HOLD otherwise; four BUY score 1 and give
\* BUY, four SELL score -1 and give SELL, sub-signals that cancel give HOLD,
\* and negating every sub-signal negates the result
C23_MultiFactorRule ==
    call.op = "multifactor" =>
        LET tenfold == TenfoldScore(call.momentum, call.mean_rev,
                                    call.fundamental, call.sentiment)
        IN  /\ REq(call.score, R(tenfold, 10))
            /\ call.returned = "BUY" <=> tenfold > 3
            /\ call.returned = "SELL" <=> tenfold < -3
            /\ call.returned = "HOLD" <=> (tenfold >= -3 /\ tenfold <= 3)
            /\ (\A k \in {"momentum", "mean_rev", "fundamental", "sentiment"} :
                    call[k] = "BUY")
               => (REq(call.score, One) /\ call.returned = "BUY")
            /\ (\A k \in {"momentum", "mean_rev", "fundamental", "sentiment"} :
                    call[k] = "SELL")
               => (REq(call.score, RNeg(One)) /\ call.returned = "SELL")
            /\ (call.momentum = Negated(call.mean_rev)
                /\ call.fundamental = Negated(call.sentiment))
               => call.returned = "HOLD"
            /\ MultiFactorSignal(Negated(call.momentum), Negated(call.mean_rev),
                                 Negated(call.fundamental), Negated(call.sentiment))
               = Negated(call.returned)

\* the technical signals cancel and only the fundamental signal is BUY:
\* the score is exactly the threshold, and the signal is HOLD
C23_Witness ==
    /\ call.op = "multifactor"
    /\ call.momentum = "BUY" /\ call.mean_rev = "SELL"
    /\ call.fundamental = "BUY" /\ call.sentiment = "HOLD"
    /\ REq(call.score, ScoreThreshold)
    /\ call.returned = "HOLD"

\* C24: an exception raised in the body of a variant's generate_signal is
\* answered with HOLD and does not leave the call; _generate_signals answers
\* an exception in its loop body with HOLD for that symbol and still gives
\* every other symbol that has bars its signal
C24_ExceptionsDegradeToHold ==
    /\ call.op = "generate_signal" =>
          /\ call.raised = "none"
          /\ call.body # "none" => call.returned = "HOLD"
          /\ call.returned \in TraderSignals
    /\ call.op = "generate_signals" =>
          \A s \in Symbols :
             /\ call.lookup[s] # "empty" =>
                   \E i \in 1..Len(call.returned) :
                      /\ call.returned[i].symbol = s
                      /\ call.returned[i].signal \in TraderSignals
             /\ (call.lookup[s] = "raise"
                 \/ (call.lookup[s] = "bars" /\ call.strategy # "ensemble"
                     /\ BodyOf(call.strategy, StrOf(s)).raised # "none"))
                => \E i \in 1..Len(call.returned) :
                      call.returned[i] = [symbol |-> s, signal |-> "HOLD"]

\* the sentiment trader on a snapshot whose news frame has two rows and no
\* sentiment_score column: KeyError in the body, HOLD returned
C24_Witness ==
    /\ call.op = "generate_signal"
    /\ call.variant = "sentiment"
    /\ call.data.kind = "dict"
    /\ "news_sentiment" \in DOMAIN call.data.items
    /\ Rows(call.data.items["news_sentiment"]) >= min_articles
    /\ call.body = "KeyError"
    /\ call.raised = "none"
    /\ call.returned = "HOLD"

\* C25: a call of generate_signal leaves the frames of the snapshot as they
\* were, and a second call on the same snapshot returns the same signal
C25_SnapshotUntouched ==
    call.op = "generate_signal" =>
        /\ call.data_after = call.data
        /\ generate_signal(call.variant, call.data_after).signal = call.returned

\* the selected strategy's rule on a snapshot
RuleOn(strategy, snapshot) ==
    IF strategy = "ensemble"
    THEN EnsembleSignal([i \in 1..Len(TraderNames) |->
                            generate_signal(TraderNames[i], snapshot).signal])
    ELSE generate_signal(strategy, snapshot).signal

\* C28: the signal the loop acts on for a symbol that has bars is the
\* selected strategy's rule applied to the symbol's snapshot of that day;
\* when the rule gives BUY, the gate approves and the cash suffices, the
\* symbol is bought
C28_SignalIsRuleOnSnapshot ==
    (call.op = "generate_signals" /\ call.lookup[call.symbol] = "bars") =>
        LET rule == RuleOn(call.strategy, call.snapshot)
            would == BacktestTrade(call.before, call.symbol, "BUY", BasePrice,
                                   FirstDay, R(1, 10), R(2, 100))
        IN  /\ call.acted = rule
            /\ (rule = "BUY" /\ Has(would.positions, call.symbol))
               => Has(call.after.positions, call.symbol)

\* C26: every call of run_backtest starts from the ledger of a new engine,
\* whatever an earlier call on the same engine left: the cash is the initial
\* capital, there are no positions, no trades and no equity curve, and the
\* risk manager holds no position; the steps of the run read nothing else
C26_NoCarryOver ==
    [][(pc = "idle" /\ pc' = "loop") =>
          /\ current_capital' = initial_capital
          /\ positions' = <<>>
          /\ trades' = <<>>
          /\ equity_curve' = <<>>
          /\ risk_positions' = <<>>
          /\ current_date' = start_date
          /\ last_equity_update' = NoDate
          /\ signals' = <<>>
          /\ visited' = <<>>
          /\ result' = NoResult]_vars

\* a second call has started on an engine whose first call left trades, an
\* equity curve and a changed cash balance, and the ledger is new
C26_Witness ==
    /\ call.op = "run_backtest"
    /\ call.left
    /\ pc = "loop"
    /\ visited = <<>>
    /\ current_capital = initial_capital
    /\ trades = <<>>
    /\ equity_curve = <<>>

\* C27: a fetch of news whose attempts all failed made at most max_retries
\* attempts, slept retry_delay between consecutive attempts, and returned an
\* empty result to its caller instead of raising
C27_FetchDegradesToEmpty ==
    call.op = "collect_and_store" =>
        \A i \in 1..Len(call.log) :
            LET f == call.log[i]
            IN  (f.failed > 0 /\ f.failed = f.attempts) =>
                    /\ f.attempts <= call.max_retries
                    /\ f.slept = [k \in 1..(f.attempts - 1) |-> retry_delay]
                    /\ f.fetch = "returned_empty"

\* C27 as amended: a fetch of news whose attempts all failed made exactly
\* max_retries attempts, slept retry_delay between consecutive attempts and
\* not after the last, and raised to collect_and_store, which stored nothing
\* for that ticker, went on to the next ticker and did not raise
C27_FetchRaisesCollectAbsorbs ==
    call.op = "collect_and_store" =>
        /\ ~call.raised
        /\ call.at = "returned" <=> Len(call.log) = Len(SymbolList)
        /\ \A i \in 1..Len(call.log) :
              LET f == call.log[i]
              IN  /\ f.ticker = SymbolList[i]
                  /\ f.attempts <= call.max_retries
                  /\ f.slept = [k \in 1..f.failed |-> retry_delay]
                     \/ f.slept = [k \in 1..(f.failed - 1) |-> retry_delay]
                  /\ (f.failed > 0 /\ f.failed = f.attempts) =>
                        /\ f.attempts = call.max_retries
                        /\ f.slept = [k \in 1..(f.attempts - 1) |-> retry_delay]
                        /\ f.fetch = "raised"
                        /\ ~f.stored

\* with max_retries 3, the three attempts for the first ticker failed, two
\* sleeps lay between them, and the second ticker was fetched and stored
C27_Witness ==
    /\ call.op = "collect_and_store"
    /\ call.max_retries = 3
    /\ call.at = "returned"
    /\ call.log[1].failed = 3 /\ call.log[1].attempts = 3
    /\ call.log[1].slept = <<retry_delay, retry_delay>>
    /\ call.log[1].fetch = "raised"
    /\ call.log[2].fetch = "returned_articles" /\ call.log[2].stored

\* a hundred times a price, as an integer
Cents(price) == (100 * price.n) \div price.d

\* C29: a position added without thresholds has them mirrored by side (long:
\* stop 5% below and take 15% above the entry; short: stop 5% above and take
\* 15% below); the check signals an exit exactly when the price is at or
\* below the lower or at or above the upper of the two, never at the entry
\* price, and never for a symbol without a position
C29_ThresholdsMirroredAndChecked ==
    /\ \A i \in 1..Len(risk_positions) :
          LET p == risk_positions[i]
              entry == Cents(p.entry_price)
          IN  /\ p.side = "long" =>
                    /\ 100 * Cents(p.stop_loss) = entry * 95
                    /\ 100 * Cents(p.take_profit) = entry * 115
              /\ p.side = "short" =>
                    /\ 100 * Cents(p.stop_loss) = entry * 105
                    /\ 100 * Cents(p.take_profit) = entry * 85
    /\ call.op = "check_stop_loss_take_profit" =>
          LET held == \E i \in 1..Len(risk_positions) :
                         risk_positions[i].symbol = call.symbol
              p == risk_positions[CHOOSE i \in 1..Len(risk_positions) :
                                     risk_positions[i].symbol = call.symbol]
              price == Cents(call.current_price)
          IN  /\ ~held => ~call.returned.exit
              /\ held =>
                    LET lower == IF p.side = "long" THEN Cents(p.stop_loss)
                                 ELSE Cents(p.take_profit)
                        upper == IF p.side = "long" THEN Cents(p.take_profit)
                                 ELSE Cents(p.stop_loss)
                    IN  /\ call.returned.exit <=> (price <= lower \/ price >= upper)
                        /\ call.returned.reason = "stop_loss"
                           <=> ((p.side = "long" /\ price <= lower)
                                \/ (p.side = "short" /\ price >= upper))
                        /\ call.returned.reason = "take_profit"
                           <=> ((p.side = "long" /\ price >= upper)
                                \/ (p.side = "short" /\ price <= lower))
                        /\ price = Cents(p.entry_price) => ~call.returned.exit

\* a short position entered at 100 and checked at 85, its take-profit
\* threshold: the check signals a take-profit exit
C29_Witness ==
    /\ call.op = "check_stop_loss_take_profit"
    /\ RiskHas(risk_positions, call.symbol)
    /\ Get(risk_positions, call.symbol).side = "short"
    /\ REq(Get(risk_positions, call.symbol).entry_price, I(100))
    /\ REq(call.current_price, I(85))
    /\ call.returned = [exit |-> TRUE, reason |-> "take_profit"]

\* C30: under every interleaving of the trading thread and the monitoring
\* thread, the broker accepts at most one sell order for a position of the
\* risk manager's map, and no sell order is placed for a position that is
\* no longer in the map
C30_AtMostOneSellPerPosition ==
    call.op = "threads" =>
        /\ \A s \in TradedSymbols : call.sells[s] <= 1
        /\ ~call.stale


\* C31: the backtest ledger never holds more than max_positions open
\* positions, whatever the number of symbols and of BUY signals
C31_OpenPositionsBounded == Len(positions) <= max_positions


\* the indices of the trades of a symbol on one side
TradesOf(symbol, side) ==
    {i \in 1..Len(trades) : trades[i].symbol = symbol /\ trades[i].side = side}

\* the buy that opened the position the sell at index j closes
OpeningBuy(j) ==
    LET earlier == {i \in TradesOf(trades[j].symbol, "buy") : i < j}
    IN  CHOOSE i \in earlier : \A k \in earlier : k <= i

LogMatchesLedger ==
    \A s \in Symbols :
        LET open == Cardinality(TradesOf(s, "buy")) - Cardinality(TradesOf(s, "sell"))
        IN  /\ open \in {0, 1}
            /\ open = 1 <=> Has(positions, s)

SellsCloseWhatWasBought ==
    \A j \in 1..Len(trades) :
        trades[j].side = "sell" =>
            /\ \E i \in TradesOf(trades[j].symbol, "buy") : i < j
            /\ trades[j].quantity = trades[OpeningBuy(j)].quantity

C33_FinalCapitalIsCashAfterClose ==
    (/\ pc = "done"
     /\ result.returned
     /\ positions = <<>>
     /\ ~IsNaN(current_capital))
    => REq(result.final_capital, current_capital)


\* C34: an engine configured with trading disabled never has an order
\* accepted by the broker
C34_DisabledPlacesNoOrder ==
    (call.op = "engine" /\ ~call.trading_enabled) => call.orders = 0


\* the threads of a target that have not left their loop
Live(target) ==
    {i \in 1..Len(call.threads) :
        call.threads[i].target = target /\ call.threads[i].pc # "exited"}

NoOrderAfterStop == call.op = "engine" => ~call.late

OneTradingLoop == call.op = "engine" => Cardinality(Live("_trading_loop")) <= 1

\* C35: once stop() has returned no worker has a further order accepted, and
\* a later start() never leaves two trading loops running at once
C35_StopHaltsWorkers == NoOrderAfterStop /\ OneTradingLoop


\* the quantity the risk manager tracks for the symbol
Tracked(symbol) ==
    IF RiskHas(risk_positions, symbol)
    THEN Get(risk_positions, symbol).quantity
    ELSE Zero

\* C36: the quantity the risk manager tracks for a symbol is the quantity
\* bought less the quantity sold through the broker for that symbol
C36_TrackedIsBoughtLessSold ==
    call.op = "engine" => REq(Tracked(EngineSymbol), call.net)


\* what a call of execute with a positive quantity did, from the simulator
\* before it (call) and after it (call')
ExecuteContract ==
    LET signal == call'.last.signal
        ticker == call'.last.ticker
        quantity == call'.last.quantity
        before == SimGet(call.positions, ticker)
        after == SimGet(call'.positions, ticker)
        others == \A t \in SimTickers \ {ticker} :
                      SimGet(call'.positions, t) = SimGet(call.positions, t)
    IN  IF signal = "SELL" /\ RGt(quantity, before)
        THEN /\ ~call'.last.returned
             /\ call'.positions = call.positions
             /\ call'.trade_history = call.trade_history
        ELSE /\ call'.last.returned
             /\ after = (IF signal = "BUY" THEN RAdd(before, quantity)
                         ELSE RSub(before, quantity))
             /\ others
             /\ Len(call'.trade_history) = Len(call.trade_history) + 1
             /\ SubSeq(call'.trade_history, 1, Len(call.trade_history))
                    = call.trade_history

\* a call of execute with BUY or SELL and a positive quantity keeps the
\* contract
ExecuteStep ==
    (/\ call.op = "simulator"
     /\ call'.last.signal \in {"BUY", "SELL"}
     /\ RGt(call'.last.quantity, Zero)) => ExecuteContract

\* after calls with positive quantities no ticker's held quantity is negative
HeldNeverNegative ==
    (call.op = "simulator" /\ call.positive) =>
        \A t \in SimTickers : RGe(SimGet(call.positions, t), Zero)

\* C37: with a positive quantity, a SELL of more than is held returns False
\* and changes nothing; every other BUY or SELL returns True, moves the held
\* quantity by the order quantity and appends one history record; so no
\* ticker's held quantity is ever negative
C37_ExecuteKeepsHoldings == [][ExecuteStep]_vars /\ []HeldNeverNegative

\* a refused SELL after an accepted BUY and an accepted SELL
C37_Witness ==
    /\ call.op = "simulator"
    /\ call.positive
    /\ Len(call.trade_history) = 2
    /\ call.trade_history[1].signal = "BUY"
    /\ call.trade_history[2].signal = "SELL"
    /\ call.last.signal = "SELL"
    /\ ~call.last.returned


\* the realized pnl of the trades of a log, summed
SummedPnl(log) == RSum([i \in 1..Len(log) |-> log[i].pnl])

\* C38: every Trade of a run is tagged with the strategy the run was invoked
\* with, and the result's breakdown for that strategy is the count and the
\* summed realized pnl of those trades
C38_TradesTaggedAndCounted ==
    (pc = "done" /\ result.returned /\ call.op = "run_backtest") =>
        /\ \A i \in 1..Len(result.trades) : result.trades[i].strategy = call.strategy
        /\ result.strategy_performance[call.strategy].trades = Len(result.trades)
        /\ REq(result.strategy_performance[call.strategy].pnl, SummedPnl(result.trades))


\* the votes of an outcome for a signal
Votes(outcome, signal) == Cardinality({i \in 1..Len(outcome) : outcome[i] = signal})

=============================================================================
